---------------------------- MODULE Spec2Model ----------------------------
(***************************************************************************)
(* A model of the binary codec and of the milestone signature core of      *)
(* iota.go (package iotago): Indexation, Milestone, the signature locked   *)
(* outputs, TreasuryOutput, TreasuryInput, Ed25519Address and the Message  *)
(* envelope.                                                               *)
(*                                                                         *)
(* Bytes are the integers 0..255 and a buffer is a sequence of bytes.      *)
(* A uint32 / uint64 is kept as its little-endian sequence of 16 bit limbs *)
(* (2 resp. 4 limbs), so that the whole 64 bit range is there; WriteNum    *)
(* and ReadNum convert between limbs and bytes.  A Go error is the name of *)
(* the sentinel error it wraps (errors.Is), Nil is the nil error.          *)
(***************************************************************************)
EXTENDS Integers, Sequences, FiniteSets, TLC

VARIABLES
    pc,     \* codec: what the caller did last ("start", "serialized", ...)
    ser,    \* codec: the object, mode and outcome of the last Serialize call
    de,     \* codec: the buffer, mode, receiver and outcome of the last Deserialize call
    ms,     \* milestone signing: the Milestone object
    call,   \* the last call (on ms, or of a function) and its outcome
    builder \* message building: the MessageBuilder and the last call on it

vars == <<pc, ser, de, ms, call, builder>>

----------------------------------------------------------------------------
(* Program constants *)

OneByte == 1
UInt16ByteSize == 2
UInt32ByteSize == 4
UInt64ByteSize == 8
TypeDenotationByteSize == 4
SmallTypeDenotationByteSize == 1

MessageIDLength == 32
MessageBinSerializedMaxSize == 32768
MinParentsInAMessage == 1
MaxParentsInAMessage == 8

TransactionPayloadTypeID == 0
MilestonePayloadTypeID == 1
IndexationPayloadTypeID == 2

IndexationIndexMaxLength == 64
IndexationIndexMinLength == 1
IndexationBinSerializedMinSize ==
    TypeDenotationByteSize + UInt16ByteSize + OneByte + UInt32ByteSize

MilestoneInclusionMerkleProofLength == 32
MilestoneSignatureLength == 64
MilestonePublicKeyLength == 32
MaxSignaturesInAMilestone == 255
MinSignaturesInAMilestone == 1
MaxPublicKeysInAMilestone == 255
MinPublicKeysInAMilestone == 1
MilestoneBinSerializedMinSize ==
    TypeDenotationByteSize + UInt32ByteSize + UInt64ByteSize + MessageIDLength
    + MessageIDLength + MilestoneInclusionMerkleProofLength + OneByte
    + MilestonePublicKeyLength + OneByte + MilestoneSignatureLength

AddressEd25519 == 0
Ed25519AddressBytesLength == 32
Ed25519AddressSerializedBytesSize ==
    SmallTypeDenotationByteSize + Ed25519AddressBytesLength

InputUTXO == 0
InputTreasury == 1
TreasuryInputBytesLength == 32
TreasuryInputSerializedBytesSize ==
    SmallTypeDenotationByteSize + TreasuryInputBytesLength

UnlockBlockSignature == 0
UnlockBlockReference == 1
ReferenceUnlockBlockSize == SmallTypeDenotationByteSize + UInt16ByteSize

OutputSigLockedSingleOutput == 0
OutputSigLockedDustAllowanceOutput == 1
OutputTreasuryOutput == 2
SigLockedSingleOutputBytesMinSize ==
    SmallTypeDenotationByteSize + Ed25519AddressSerializedBytesSize + UInt64ByteSize
SigLockedDustAllowanceOutputBytesMinSize ==
    SmallTypeDenotationByteSize + Ed25519AddressSerializedBytesSize + UInt64ByteSize
TreasuryOutputBytesSize == SmallTypeDenotationByteSize + UInt64ByteSize

\* 2,779,530,283,277,761 = 0x0009 DFF7 D32D 5DC1, as little-endian 16 bit limbs
TokenSupply == <<24001, 54061, 57335, 9>>
\* 1,000,000 = 0x000F 4240
OutputSigLockedDustAllowanceOutputMinDeposit == <<16960, 15, 0, 0>>

DeSeriModeNoValidation == "NoValidation"
DeSeriModePerformValidation == "PerformValidation"
DeSeriModes == {DeSeriModeNoValidation, DeSeriModePerformValidation}

HasMode(deSeriMode, mode) == deSeriMode = mode

----------------------------------------------------------------------------
(* Errors *)

Nil == "nil"
\* an index or slice expression out of range: the Go runtime panics
Panic == "panic: slice bounds out of range"

ErrInvalidBytes == "ErrInvalidBytes"
ErrDeserializationTypeMismatch == "ErrDeserializationTypeMismatch"
ErrUnknownPayloadType == "ErrUnknownPayloadType"
ErrUnknownAddrType == "ErrUnknownAddrType"
ErrUnknownUnlockBlockType == "ErrUnknownUnlockBlockType"
\* the failure of the unlock block rules of a transaction
ErrUnlockBlocksValidation == "ErrUnlockBlocksValidation"
ErrArrayValidationMinElementsNotReached == "ErrArrayValidationMinElementsNotReached"
ErrArrayValidationMaxElementsExceeded == "ErrArrayValidationMaxElementsExceeded"
ErrArrayValidationViolatesUniqueness == "ErrArrayValidationViolatesUniqueness"
ErrArrayValidationOrderViolatesLexicalOrder == "ErrArrayValidationOrderViolatesLexicalOrder"
ErrDeserializationNotEnoughData == "ErrDeserializationNotEnoughData"
ErrDeserializationLengthInvalid == "ErrDeserializationLengthInvalid"
ErrDeserializationNotAllConsumed == "ErrDeserializationNotAllConsumed"

ErrIndexationIndexExceedsMaxSize == "ErrIndexationIndexExceedsMaxSize"
ErrIndexationIndexUnderMinSize == "ErrIndexationIndexUnderMinSize"

ErrMilestoneTooFewSignatures == "ErrMilestoneTooFewSignatures"
ErrMilestoneTooFewSignaturesForVerificationThreshold ==
    "ErrMilestoneTooFewSignaturesForVerificationThreshold"
ErrMilestoneTooFewPublicKeys == "ErrMilestoneTooFewPublicKeys"
ErrMilestonePublicKeyOrderViolatesLexicalOrder ==
    "ErrMilestonePublicKeyOrderViolatesLexicalOrder"
ErrMilestoneProducedSignaturesCountMismatch == "ErrMilestoneProducedSignaturesCountMismatch"
ErrMilestoneSignaturesPublicKeyCountMismatch == "ErrMilestoneSignaturesPublicKeyCountMismatch"
ErrMilestoneTooManySignatures == "ErrMilestoneTooManySignatures"
ErrMilestoneTooManyPublicKeys == "ErrMilestoneTooManyPublicKeys"
ErrMilestoneInvalidMinSignatureThreshold == "ErrMilestoneInvalidMinSignatureThreshold"
ErrMilestoneNonApplicablePublicKey == "ErrMilestoneNonApplicablePublicKey"
ErrMilestoneSignatureThresholdGreaterThanApplicablePublicKeySet ==
    "ErrMilestoneSignatureThresholdGreaterThanApplicablePublicKeySet"
ErrMilestoneInvalidSignature == "ErrMilestoneInvalidSignature"
ErrMilestoneInMemorySignerPrivateKeyMissing == "ErrMilestoneInMemorySignerPrivateKeyMissing"
ErrMilestoneDuplicatedPublicKey == "ErrMilestoneDuplicatedPublicKey"

\* the value errors of the output amount validator and the message size cap
ErrDepositAmountMustBeGreaterThanZero == "ErrDepositAmountMustBeGreaterThanZero"
ErrOutputDepositsMoreThanTotalSupply == "ErrOutputDepositsMoreThanTotalSupply"
ErrOutputDustAllowanceLessThanMinDeposit == "ErrOutputDustAllowanceLessThanMinDeposit"
ErrMessageExceedsMaxSize == "ErrMessageExceedsMaxSize"

----------------------------------------------------------------------------
(* Bytes, numbers and comparison *)

Min(a, b) == IF a < b THEN a ELSE b

\* length bytes starting after the first offset bytes of data
Slice(data, offset, length) == SubSeq(data, offset + 1, offset + length)

Zeros(n) == [i \in 1..n |-> 0]

\* a uint32 / uint64 whose value n fits the model's integers, as limbs
U32(n) == <<n % 65536, n \div 65536>>
U64(n) == <<n % 65536, n \div 65536, 0, 0>>

\* binary.LittleEndian.PutUint16/32/64 of a number kept as limbs
PutUint(x) ==
    [i \in 1..(2 * Len(x)) |->
        IF i % 2 = 1 THEN x[(i + 1) \div 2] % 256 ELSE x[i \div 2] \div 256]

\* binary.LittleEndian.Uint16/32/64: the limbs of the number in b
Uint(b) == [j \in 1..(Len(b) \div 2) |-> b[2 * j - 1] + 256 * b[2 * j]]

\* a < b for two numbers of the same width kept as limbs
RECURSIVE LimbsLess(_, _, _)
LimbsLess(a, b, i) ==
    IF i = 0 THEN FALSE
    ELSE IF a[i] # b[i] THEN a[i] < b[i]
    ELSE LimbsLess(a, b, i - 1)

NumLess(a, b) == LimbsLess(a, b, Len(a))

\* a length n written as a little-endian integer of width bytes (uintW(n))
PutLen(n, width) ==
    [i \in 1..width |->
        CASE i = 1 -> n % 256
          [] i = 2 -> (n \div 256) % 256
          [] i = 3 -> (n \div 65536) % 256
          [] i = 4 -> (n \div 16777216) % 256]

\* a little-endian integer of 1, 2 or 4 bytes read as a length
GetLen(b) ==
    CASE Len(b) = 1 -> b[1]
      [] Len(b) = 2 -> b[1] + 256 * b[2]
      [] Len(b) = 4 ->
            \* 2^30 stands for every length of 2^30 or more: all of them exceed
            \* every buffer and every limit of the program alike
            IF b[4] >= 64 THEN 1073741824
            ELSE b[1] + 256 * b[2] + 65536 * b[3] + 16777216 * b[4]

\* bytes.Compare: -1, 0 or 1
RECURSIVE BytesCompareFrom(_, _, _)
BytesCompareFrom(a, b, i) ==
    IF i > Len(a) /\ i > Len(b) THEN 0
    ELSE IF i > Len(a) THEN -1
    ELSE IF i > Len(b) THEN 1
    ELSE IF a[i] < b[i] THEN -1
    ELSE IF a[i] > b[i] THEN 1
    ELSE BytesCompareFrom(a, b, i + 1)

BytesCompare(a, b) == BytesCompareFrom(a, b, 1)

\* the concatenation of the elements of a sequence of byte arrays
RECURSIVE Flatten(_)
Flatten(arrays) ==
    IF Len(arrays) = 0 THEN <<>> ELSE Head(arrays) \o Flatten(Tail(arrays))

\* copy(dst, src) on a fixed size array: min(len) bytes are overwritten
Copy(dst, src) ==
    [i \in 1..Len(dst) |-> IF i <= Len(src) THEN src[i] ELSE dst[i]]

\* F applied to the value of x: x is evaluated once, however often F reads it
Apply(F(_), x) == CHOOSE r \in {F(v) : v \in {x}} : TRUE

----------------------------------------------------------------------------
(* The Serializer: a growing buffer with a sticky error.  A step that finds *)
(* the error set does nothing.                                              *)

NewSerializer == [buf |-> <<>>, err |-> Nil]

\* AbortIf: the error the callback returned (Nil for none) becomes the error
SAbortIf(s0, cbErr) ==
    Apply(LAMBDA s :
        IF s.err # Nil THEN s ELSE [s EXCEPT !.err = cbErr],
        s0)

\* WriteNum of a uint32 / uint64 kept as limbs
WriteNum(s0, x) ==
    Apply(LAMBDA s :
        IF s.err # Nil THEN s ELSE [s EXCEPT !.buf = @ \o PutUint(x)],
        s0)

\* WriteNum of a byte (a type denotation byte)
WriteByte(s0, b) ==
    Apply(LAMBDA s :
        IF s.err # Nil THEN s ELSE [s EXCEPT !.buf = @ \o <<b % 256>>],
        s0)

\* WriteNum of a uint32 constant (a payload type ID)
WriteTypeID(s0, id) ==
    Apply(LAMBDA s :
        IF s.err # Nil THEN s ELSE [s EXCEPT !.buf = @ \o PutLen(id, 4)],
        s0)

WriteBytes(s0, data) ==
    Apply(LAMBDA s :
        IF s.err # Nil THEN s ELSE [s EXCEPT !.buf = @ \o data],
        s0)

\* WriteVariableByteSlice: the length as an integer of prefixWidth bytes, then
\* the bytes
WriteVariableByteSlice(s0, data, prefixWidth) ==
    Apply(LAMBDA s :
        IF s.err # Nil THEN s
        ELSE [s EXCEPT !.buf = @ \o PutLen(Len(data), prefixWidth) \o data],
        s0)

\* Write32BytesArraySlice / Write64BytesArraySlice: the element count as an
\* integer of prefixWidth bytes, then the elements
WriteArraySlice(s0, arrays, prefixWidth) ==
    Apply(LAMBDA s :
        IF s.err # Nil THEN s
        ELSE [s EXCEPT !.buf = @ \o PutLen(Len(arrays), prefixWidth) \o Flatten(arrays)],
        s0)

\* WriteObject: the bytes the object's own Serialize returned, or its error
WriteObject(s0, objSer) ==
    Apply(LAMBDA s :
        IF s.err # Nil THEN s
        ELSE Apply(LAMBDA r :
                 IF r.err # Nil THEN [s EXCEPT !.err = r.err]
                 ELSE [s EXCEPT !.buf = @ \o r.data],
                 objSer),
        s0)

\* WritePayload: a uint32 length, 0 for no payload, then the payload's bytes
WritePayload(s0, hasPayload, objSer) ==
    Apply(LAMBDA s :
        IF s.err # Nil THEN s
        ELSE IF ~hasPayload THEN [s EXCEPT !.buf = @ \o PutLen(0, UInt32ByteSize)]
        ELSE Apply(LAMBDA r :
                 IF r.err # Nil THEN [s EXCEPT !.err = r.err]
                 ELSE [s EXCEPT !.buf = @ \o PutLen(Len(r.data), UInt32ByteSize) \o r.data],
                 objSer),
        s0)

\* Serialize: the bytes, or no bytes and the error
SerializerSerialize(s0) ==
    Apply(LAMBDA s :
        IF s.err # Nil THEN [data |-> <<>>, err |-> s.err] ELSE [data |-> s.buf, err |-> Nil],
        s0)

----------------------------------------------------------------------------
(* The Deserializer: a cursor (offset) over the caller's buffer with a      *)
(* sticky error.  A read takes the place it reads into: obj is the receiver *)
(* of the Deserialize call and a read that succeeds assigns its field.      *)

NewDeserializer(data, obj) == [data |-> data, offset |-> 0, err |-> Nil, obj |-> obj]

Remaining(d) == Len(d.data) - d.offset

\* AbortIf: the callback looks at the receiver; the error it returns (Nil for
\* none) becomes the error
DAbortIf(d0, cb(_)) ==
    Apply(LAMBDA d :
        IF d.err # Nil THEN d ELSE [d EXCEPT !.err = cb(d.obj)],
        d0)

Skip(d0, n) ==
    Apply(LAMBDA d :
        IF d.err # Nil THEN d
        ELSE IF Remaining(d) < n THEN [d EXCEPT !.err = ErrDeserializationNotEnoughData]
        ELSE [d EXCEPT !.offset = @ + n],
        d0)

\* a ReadNum that reads whatever happened before it
ReadNumAfterError(d0, width, field) ==
    Apply(LAMBDA d :
        IF Remaining(d) < width THEN [d EXCEPT !.err = ErrDeserializationNotEnoughData]
        ELSE [d EXCEPT !.offset = @ + width,
                       !.obj[field] = Uint(Slice(d.data, d.offset, width))],
        d0)

\* ReadNum of a uint32 (width 4) or uint64 (width 8) into field, as limbs
ReadNum(d0, width, field) ==
    Apply(LAMBDA d :
        IF d.err # Nil THEN d
        ELSE IF Remaining(d) < width THEN [d EXCEPT !.err = ErrDeserializationNotEnoughData]
        ELSE [d EXCEPT !.offset = @ + width,
                       !.obj[field] = Uint(Slice(d.data, d.offset, width))],
        d0)

\* ReadArrayOf32Bytes and the like: the next size bytes into field
ReadArray(d0, size, field) ==
    Apply(LAMBDA d :
        IF d.err # Nil THEN d
        ELSE IF Remaining(d) < size THEN [d EXCEPT !.err = ErrDeserializationNotEnoughData]
        ELSE [d EXCEPT !.offset = @ + size,
                       !.obj[field] = Slice(d.data, d.offset, size)],
        d0)

\* ReadVariableByteSlice: a length of prefixWidth bytes, at most maxRead, then
\* that many bytes into field
ReadVariableByteSlice(d0, prefixWidth, maxRead, field) ==
    Apply(LAMBDA d :
        IF d.err # Nil THEN d
        ELSE IF Remaining(d) < prefixWidth
        THEN [d EXCEPT !.err = ErrDeserializationNotEnoughData]
        ELSE LET length == GetLen(Slice(d.data, d.offset, prefixWidth))
                 start == d.offset + prefixWidth
             IN IF length > maxRead
                THEN [d EXCEPT !.offset = start, !.err = ErrDeserializationLengthInvalid]
                ELSE IF Len(d.data) - start < length
                THEN [d EXCEPT !.offset = start, !.err = ErrDeserializationNotEnoughData]
                ELSE [d EXCEPT !.offset = start + length,
                               !.obj[field] = Slice(d.data, start, length)],
        d0)

\* ReadSliceOfArraysOf32Bytes / ...64Bytes: an element count of prefixWidth
\* bytes, then that many arrays of size bytes into field
ReadSliceOfArrays(d0, prefixWidth, size, field) ==
    Apply(LAMBDA d :
        IF d.err # Nil THEN d
        ELSE IF Remaining(d) < prefixWidth
        THEN [d EXCEPT !.err = ErrDeserializationNotEnoughData]
        ELSE LET count == GetLen(Slice(d.data, d.offset, prefixWidth))
                 start == d.offset + prefixWidth
             IN IF Len(d.data) - start < count * size
                THEN [d EXCEPT !.offset = start, !.err = ErrDeserializationNotEnoughData]
                ELSE [d EXCEPT !.offset = start + count * size,
                               !.obj[field] =
                                   [i \in 1..count |->
                                       Slice(d.data, start + (i - 1) * size, size)]],
        d0)

\* Done: the bytes consumed and the error; with validation, bytes left over
\* are an error.  obj is the receiver as the reads left it
Done(d0, deSeriMode) ==
    Apply(LAMBDA d :
        [obj |-> d.obj, n |-> d.offset,
         err |-> IF d.err # Nil THEN d.err
                 ELSE IF HasMode(deSeriMode, DeSeriModePerformValidation)
                         /\ Remaining(d) > 0
                 THEN ErrDeserializationNotAllConsumed
                 ELSE Nil],
        d0)

----------------------------------------------------------------------------
(* Array rules *)

\* LexicalOrderWithoutDupsValidator run over all elements in order: every
\* element must be greater than the one before it; orderErr is the rules'
\* ElementBytesLexicalOrderErr
RECURSIVE LexicalOrderWithoutDupsFrom(_, _, _)
LexicalOrderWithoutDupsFrom(elements, i, orderErr) ==
    IF i > Len(elements) THEN Nil
    ELSE LET c == BytesCompare(elements[i - 1], elements[i])
         IN IF c = 1 THEN orderErr
            ELSE IF c = 0 THEN ErrArrayValidationViolatesUniqueness
            ELSE LexicalOrderWithoutDupsFrom(elements, i + 1, orderErr)

LexicalOrderWithoutDupsValidator(elements, orderErr) ==
    LexicalOrderWithoutDupsFrom(elements, 2, orderErr)

\* the element count against the rules' Min and Max
CheckMinMax(count, min, max) ==
    IF count < min THEN ErrArrayValidationMinElementsNotReached
    ELSE IF count > max THEN ErrArrayValidationMaxElementsExceeded
    ELSE Nil

----------------------------------------------------------------------------
(* error.go *)

checkType(data, shouldType) ==
    IF Len(data) < 4 THEN ErrDeserializationNotEnoughData
    ELSE IF Slice(data, 0, 4) # PutLen(shouldType, 4) THEN ErrDeserializationTypeMismatch
    ELSE Nil

checkTypeByte(data, shouldType) ==
    IF Len(data) = 0 THEN ErrDeserializationNotEnoughData
    ELSE IF data[1] # shouldType THEN ErrDeserializationTypeMismatch
    ELSE Nil

checkMinByteLength(min, length) ==
    IF length < min THEN ErrDeserializationNotEnoughData ELSE Nil

\* two checks in a row: the first error wins
FirstErr(e1, e2) == IF e1 # Nil THEN e1 ELSE e2

----------------------------------------------------------------------------
(* Objects.  A Serializable is a record with a type field; NoObj is the nil *)
(* interface value.                                                         *)

NoObj == [type |-> "nil"]

NewEd25519Address(bytes) == [type |-> "Ed25519Address", bytes |-> bytes]
NewTreasuryInput(bytes) == [type |-> "TreasuryInput", bytes |-> bytes]
NewSigLockedSingleOutput(address, amount) ==
    [type |-> "SigLockedSingleOutput", Address |-> address, Amount |-> amount]
NewSigLockedDustAllowanceOutput(address, amount) ==
    [type |-> "SigLockedDustAllowanceOutput", Address |-> address, Amount |-> amount]
NewTreasuryOutput(amount) == [type |-> "TreasuryOutput", Amount |-> amount]
NewIndexation(index, data) == [type |-> "Indexation", Index |-> index, Data |-> data]
MilestoneOf(index, timestamp, parent1, parent2, proof, pubKeys, sigs) ==
    [type |-> "Milestone", Index |-> index, Timestamp |-> timestamp,
     Parent1 |-> parent1, Parent2 |-> parent2, InclusionMerkleProof |-> proof,
     PublicKeys |-> pubKeys, Signatures |-> sigs]
NewEd25519Signature(publicKey, signature) ==
    [type |-> "Ed25519Signature", PublicKey |-> publicKey, Signature |-> signature]
NewSignatureUnlockBlock(signature) ==
    [type |-> "SignatureUnlockBlock", Signature |-> signature]
\* Reference is a uint16: one limb
NewReferenceUnlockBlock(reference) ==
    [type |-> "ReferenceUnlockBlock", Reference |-> reference]
NewMessage(networkID, parents, payload, nonce) ==
    [type |-> "Message", NetworkID |-> networkID, Parents |-> parents,
     Payload |-> payload, Nonce |-> nonce]

\* the zero value of each type (&T{})
ZeroValue(type) ==
    CASE type = "Ed25519Address" -> NewEd25519Address(Zeros(32))
      [] type = "TreasuryInput" -> NewTreasuryInput(Zeros(32))
      [] type = "SigLockedSingleOutput" -> NewSigLockedSingleOutput(NoObj, U64(0))
      [] type = "SigLockedDustAllowanceOutput" ->
            NewSigLockedDustAllowanceOutput(NoObj, U64(0))
      [] type = "TreasuryOutput" -> NewTreasuryOutput(U64(0))
      [] type = "Indexation" -> NewIndexation(<<>>, <<>>)
      [] type = "Milestone" ->
            MilestoneOf(U32(0), U64(0), Zeros(32), Zeros(32), Zeros(32), <<>>, <<>>)
      [] type = "Message" -> NewMessage(U64(0), <<>>, NoObj, U64(0))
      [] type = "ReferenceUnlockBlock" -> NewReferenceUnlockBlock(<<0>>)
      [] type = "SignatureUnlockBlock" -> NewSignatureUnlockBlock(NoObj)

----------------------------------------------------------------------------
(* Ed25519Address, TreasuryInput *)

newAddress(addressType) ==
    IF addressType = AddressEd25519
    THEN [obj |-> ZeroValue("Ed25519Address"), err |-> Nil]
    ELSE [obj |-> NoObj, err |-> ErrUnknownAddrType]

\* the uint32 tag is converted to a byte
AddressSelector(addressType) == newAddress(addressType % 256)

\* the body shared by Ed25519Address.Deserialize and TreasuryInput.Deserialize:
\* with validation a length and a type check, then copy(x[:], data[1:])
ArrayDeserialize(x, data, deSeriMode, size, typeByte) ==
    LET err == IF HasMode(deSeriMode, DeSeriModePerformValidation)
               THEN FirstErr(checkMinByteLength(size, Len(data)),
                             checkTypeByte(data, typeByte))
               ELSE Nil
    IN IF err # Nil THEN [obj |-> x, n |-> 0, err |-> err]
       ELSE IF Len(data) < SmallTypeDenotationByteSize
       THEN [obj |-> x, n |-> 0, err |-> Panic]
       ELSE [obj |-> [x EXCEPT !.bytes =
                        Copy(@, Slice(data, SmallTypeDenotationByteSize,
                                      Len(data) - SmallTypeDenotationByteSize))],
             n |-> size, err |-> Nil]

Ed25519AddressDeserialize(edAddr, data, deSeriMode) ==
    ArrayDeserialize(edAddr, data, deSeriMode, Ed25519AddressSerializedBytesSize,
                     AddressEd25519)

Ed25519AddressSerialize(edAddr, deSeriMode) ==
    [data |-> <<AddressEd25519>> \o edAddr.bytes, err |-> Nil]

TreasuryInputDeserialize(ti, data, deSeriMode) ==
    ArrayDeserialize(ti, data, deSeriMode, TreasuryInputSerializedBytesSize,
                     InputTreasury)

TreasuryInputSerialize(ti, deSeriMode) ==
    [data |-> <<InputTreasury>> \o ti.bytes, err |-> Nil]

\* Serialize of the object in an Address slot; a nil interface has no method
AddressSerialize(address, deSeriMode) ==
    IF address.type = "Ed25519Address" THEN Ed25519AddressSerialize(address, deSeriMode)
    ELSE [data |-> <<>>, err |-> Panic]

\* ReadObject with TypeDenotationByte and AddressSelector: the tag is looked
\* at, the selected object deserializes itself from the tag on and is
\* assigned to field
ReadAddress(d0, deSeriMode, field) ==
    Apply(LAMBDA d :
        IF d.err # Nil THEN d
        ELSE IF Remaining(d) < SmallTypeDenotationByteSize
        THEN [d EXCEPT !.err = ErrDeserializationNotEnoughData]
        ELSE LET sel == AddressSelector(d.data[d.offset + 1])
                 r == Ed25519AddressDeserialize(sel.obj,
                          Slice(d.data, d.offset, Remaining(d)), deSeriMode)
             IN IF sel.err # Nil THEN [d EXCEPT !.err = sel.err]
                ELSE IF r.err # Nil THEN [d EXCEPT !.err = r.err]
                ELSE IF r.n > Remaining(d) THEN [d EXCEPT !.err = Panic]
                ELSE [d EXCEPT !.offset = @ + r.n, !.obj[field] = r.obj],
        d0)

----------------------------------------------------------------------------
(* Bech32: an address as a string.  A string is the sequence of its one   *)
(* character strings                                                       *)

ErrUnknownNetworkPrefix == "ErrUnknownNetworkPrefix"
ErrBech32Decode == "ErrBech32Decode"

PrefixMainnet == 0
PrefixTestnet == 1

hrpStrings == <<<<"i", "o", "t", "a">>, <<"a", "t", "o", "i">>>>

\* p.String(): an index outside hrpStrings panics
NetworkPrefixString(p) == hrpStrings[p + 1]

\* a parser that takes every prefix for the first one
ParsePrefixFirst(s) ==
    IF \E i \in 1..Len(hrpStrings) : s = hrpStrings[i]
    THEN [prefix |-> PrefixMainnet, err |-> Nil]
    ELSE [prefix |-> 0, err |-> ErrUnknownNetworkPrefix]

ParsePrefix(s) ==
    IF \E i \in 1..Len(hrpStrings) : s = hrpStrings[i]
    THEN [prefix |-> (CHOOSE i \in 1..Len(hrpStrings) : s = hrpStrings[i]) - 1,
          err |-> Nil]
    ELSE [prefix |-> 0, err |-> ErrUnknownNetworkPrefix]

\* the characters of the 5 bit values 0..31 and the separator
Bech32Charset ==
    <<"q", "p", "z", "r", "y", "9", "x", "8", "g", "f", "2", "t", "v", "d", "w", "0",
      "s", "3", "j", "n", "5", "4", "k", "h", "c", "e", "6", "m", "u", "a", "7", "l">>
Bech32Separator == "1"

\* bit j (from 0, most significant first) of a sequence of groups of width
\* bits each; 0 past the end
BitOf(groups, width, j) ==
    IF j \div width + 1 > Len(groups) THEN 0
    ELSE (groups[j \div width + 1] \div (2 ^ (width - 1 - (j % width)))) % 2

\* the groups of toWidth bits that hold bits from..(from + toWidth - 1)
GroupAt(groups, width, toWidth, from) ==
    LET b(k) == BitOf(groups, width, from + k) * 2 ^ (toWidth - 1 - k)
    IN IF toWidth = 5 THEN b(0) + b(1) + b(2) + b(3) + b(4)
       ELSE b(0) + b(1) + b(2) + b(3) + b(4) + b(5) + b(6) + b(7)

\* bytes to 5 bit values, the last value padded with zero bits
ConvertTo5(bytes) ==
    [k \in 1..((8 * Len(bytes) + 4) \div 5) |-> GroupAt(bytes, 8, 5, 5 * (k - 1))]

\* 5 bit values to bytes; the bits left over are the padding
ConvertTo8(values) ==
    [m \in 1..((5 * Len(values)) \div 8) |-> GroupAt(values, 5, 8, 8 * (m - 1))]

\* the padding is shorter than a value and zero
PaddingValid(values) ==
    /\ (5 * Len(values)) % 8 < 5
    /\ \A j \in (8 * ((5 * Len(values)) \div 8))..(5 * Len(values) - 1) :
          BitOf(values, 5, j) = 0

RECURSIVE IndexIn(_, _, _)
IndexIn(seq, x, i) ==
    IF i > Len(seq) THEN 0 ELSE IF seq[i] = x THEN i ELSE IndexIn(seq, x, i + 1)

\* the checksum of a string: six values that every character of the prefix
\* and every value count in, stood for by a 29 bit weighted sum
RECURSIVE Bech32Sum(_, _, _)
Bech32Sum(hrp, values, i) ==
    IF i > Len(hrp) + Len(values) THEN 1
    ELSE ((i + 1) * (IF i <= Len(hrp) THEN 32 + IndexIn(Bech32Charset, hrp[i], 1)
                     ELSE values[i - Len(hrp)])
          + 3 * Bech32Sum(hrp, values, i + 1)) % (2 ^ 29)

Bech32Checksum(hrp, values) ==
    [k \in 1..6 |-> (Bech32Sum(hrp, values, 1) \div (32 ^ (6 - k))) % 32]

\* bech32.Encode(hrp, src)
Bech32Encode(hrp, src) ==
    LET values == ConvertTo5(src)
        all == values \o Bech32Checksum(hrp, values)
    IN hrp \o <<Bech32Separator>> \o [i \in 1..Len(all) |-> Bech32Charset[all[i] + 1]]

\* the position of the last separator of s, 0 if it has none
RECURSIVE LastSeparator(_, _)
LastSeparator(s, i) ==
    IF i = 0 THEN 0 ELSE IF s[i] = Bech32Separator THEN i ELSE LastSeparator(s, i - 1)

\* bech32.Decode(s)
Bech32Decode(s) ==
    LET sep == LastSeparator(s, Len(s))
        hrp == SubSeq(s, 1, sep - 1)
        chars == SubSeq(s, sep + 1, Len(s))
        all == [i \in 1..Len(chars) |-> IndexIn(Bech32Charset, chars[i], 1) - 1]
        values == SubSeq(all, 1, Len(all) - 6)
        failed == [hrp |-> <<>>, data |-> <<>>, err |-> ErrBech32Decode]
    IN IF sep < 2 \/ Len(chars) < 6 THEN failed
       ELSE IF \E i \in 1..Len(all) : all[i] < 0 THEN failed
       ELSE IF SubSeq(all, Len(all) - 5, Len(all)) # Bech32Checksum(hrp, values)
       THEN failed
       ELSE IF ~PaddingValid(values) THEN failed
       ELSE [hrp |-> hrp, data |-> ConvertTo8(values), err |-> Nil]

\* the serializing is without validation and its error is dropped
bech32String(hrp, addr) ==
    Bech32Encode(NetworkPrefixString(hrp),
                 Ed25519AddressSerialize(addr, DeSeriModeNoValidation).data)

Ed25519AddressBech32(edAddr, hrp) == bech32String(hrp, edAddr)

ParseBech32(s) ==
    LET dec == Bech32Decode(s)
        pre == ParsePrefix(dec.hrp)
        sel == newAddress(dec.data[1])
        r == Ed25519AddressDeserialize(sel.obj, dec.data, DeSeriModePerformValidation)
        failed(err) == [prefix |-> 0, addr |-> NoObj, err |-> err]
    IN IF dec.err # Nil THEN failed(dec.err)
       ELSE IF pre.err # Nil THEN failed(pre.err)
       ELSE IF Len(dec.data) = 0 THEN failed(ErrDeserializationNotEnoughData)
       ELSE IF sel.err # Nil THEN failed(sel.err)
       ELSE IF r.err # Nil THEN failed(r.err)
       ELSE IF r.n # Len(dec.data) THEN failed(ErrDeserializationNotAllConsumed)
       ELSE [prefix |-> pre.prefix, addr |-> r.obj, err |-> Nil]

----------------------------------------------------------------------------
(* SigLockedSingleOutput, SigLockedDustAllowanceOutput, TreasuryOutput *)

\* the amount rules of an output: at least the dust allowance minimum for a
\* dust allowance output, not zero, at most the token supply
outputAmountValidator(s) ==
    IF s.type = "SigLockedDustAllowanceOutput"
       /\ NumLess(s.Amount, OutputSigLockedDustAllowanceOutputMinDeposit)
    THEN ErrOutputDustAllowanceLessThanMinDeposit
    ELSE IF s.Amount = U64(0) THEN ErrDepositAmountMustBeGreaterThanZero
    ELSE IF NumLess(TokenSupply, s.Amount) THEN ErrOutputDepositsMoreThanTotalSupply
    ELSE Nil

\* the body shared by SigLockedSingleOutput.Deserialize and
\* SigLockedDustAllowanceOutput.Deserialize
SigLockedDeserialize(s, data, deSeriMode, minSize, typeByte) ==
    LET d0 == NewDeserializer(data, s)
        d1 == DAbortIf(d0, LAMBDA x :
                  IF HasMode(deSeriMode, DeSeriModePerformValidation)
                  THEN FirstErr(checkMinByteLength(minSize, Len(data)),
                                checkTypeByte(data, typeByte))
                  ELSE Nil)
        d2 == Skip(d1, SmallTypeDenotationByteSize)
        d3 == ReadAddress(d2, deSeriMode, "Address")
        d4 == ReadNum(d3, UInt64ByteSize, "Amount")
        d5 == DAbortIf(d4, LAMBDA x :
                  IF HasMode(deSeriMode, DeSeriModePerformValidation)
                  THEN outputAmountValidator(x)
                  ELSE Nil)
    IN Done(d5, deSeriMode)

\* the body shared by SigLockedSingleOutput.Serialize and
\* SigLockedDustAllowanceOutput.Serialize
SigLockedSerialize(s, deSeriMode, typeByte) ==
    LET s0 == NewSerializer
        s1 == SAbortIf(s0, IF HasMode(deSeriMode, DeSeriModePerformValidation)
                           THEN FirstErr(outputAmountValidator(s),
                                         IF s.Address.type = "Ed25519Address"
                                         THEN Nil ELSE ErrUnknownAddrType)
                           ELSE Nil)
        s2 == WriteByte(s1, typeByte)
        s3 == IF s2.err # Nil THEN s2
              ELSE WriteObject(s2, AddressSerialize(s.Address, deSeriMode))
        s4 == WriteNum(s3, s.Amount)
    IN SerializerSerialize(s4)

\* a Deserialize that puts the receiver back when it fails
SigLockedSingleOutputDeserializeRestores(s, data, deSeriMode) ==
    Apply(LAMBDA r : IF r.err # Nil THEN [r EXCEPT !.obj = s] ELSE r,
          SigLockedDeserialize(s, data, deSeriMode, SigLockedSingleOutputBytesMinSize,
                               OutputSigLockedSingleOutput))

SigLockedSingleOutputDeserialize(s, data, deSeriMode) ==
    SigLockedDeserialize(s, data, deSeriMode, SigLockedSingleOutputBytesMinSize,
                         OutputSigLockedSingleOutput)

SigLockedSingleOutputSerialize(s, deSeriMode) ==
    SigLockedSerialize(s, deSeriMode, OutputSigLockedSingleOutput)

SigLockedDustAllowanceOutputDeserialize(s, data, deSeriMode) ==
    SigLockedDeserialize(s, data, deSeriMode, SigLockedDustAllowanceOutputBytesMinSize,
                         OutputSigLockedDustAllowanceOutput)

SigLockedDustAllowanceOutputSerialize(s, deSeriMode) ==
    SigLockedSerialize(s, deSeriMode, OutputSigLockedDustAllowanceOutput)

TreasuryOutputDeserialize(t, data, deSeriMode) ==
    LET d0 == NewDeserializer(data, t)
        d1 == DAbortIf(d0, LAMBDA x :
                  IF HasMode(deSeriMode, DeSeriModePerformValidation)
                  THEN FirstErr(checkMinByteLength(TreasuryOutputBytesSize, Len(data)),
                                checkTypeByte(data, OutputTreasuryOutput))
                  ELSE Nil)
        d2 == Skip(d1, SmallTypeDenotationByteSize)
        d3 == ReadNum(d2, UInt64ByteSize, "Amount")
    IN Done(d3, deSeriMode)

\* a Serialize that writes the tag of the treasury input
TreasuryOutputSerializeInputTag(t, deSeriMode) ==
    LET s1 == WriteByte(NewSerializer, InputTreasury)
        s2 == WriteNum(s1, t.Amount)
    IN SerializerSerialize(s2)

TreasuryOutputSerialize(t, deSeriMode) ==
    LET s1 == WriteByte(NewSerializer, OutputTreasuryOutput)
        s2 == WriteNum(s1, t.Amount)
    IN SerializerSerialize(s2)

----------------------------------------------------------------------------
(* Indexation *)

IndexationDeserialize(u, data, deSeriMode) ==
    LET d0 == NewDeserializer(data, u)
        d1 == DAbortIf(d0, LAMBDA x :
                  IF HasMode(deSeriMode, DeSeriModePerformValidation)
                  THEN FirstErr(checkMinByteLength(IndexationBinSerializedMinSize,
                                                   Len(data)),
                                checkType(data, IndexationPayloadTypeID))
                  ELSE Nil)
        d2 == Skip(d1, TypeDenotationByteSize)
        d3 == ReadVariableByteSlice(d2, UInt16ByteSize, IndexationIndexMaxLength, "Index")
        d4 == DAbortIf(d3, LAMBDA x :
                  IF HasMode(deSeriMode, DeSeriModePerformValidation)
                     /\ Len(x.Index) < IndexationIndexMinLength
                  THEN ErrIndexationIndexUnderMinSize
                  ELSE Nil)
        d5 == ReadVariableByteSlice(d4, UInt32ByteSize, MessageBinSerializedMaxSize, "Data")
    IN Done(d5, deSeriMode)

\* Indexation.Serialize with an index of 64 bytes taken for too long
IndexationSerializeChecksOffByOne(u) ==
    IF Len(u.Index) >= IndexationIndexMaxLength THEN ErrIndexationIndexExceedsMaxSize
    ELSE IF Len(u.Index) < IndexationIndexMinLength THEN ErrIndexationIndexUnderMinSize
    ELSE Nil

\* the switch of Indexation.Serialize with validation
IndexationSerializeChecks(u) ==
    IF Len(u.Index) > IndexationIndexMaxLength THEN ErrIndexationIndexExceedsMaxSize
    ELSE IF Len(u.Index) < IndexationIndexMinLength THEN ErrIndexationIndexUnderMinSize
    ELSE Nil

IndexationSerialize(u, deSeriMode) ==
    LET s1 == SAbortIf(NewSerializer,
                  IF HasMode(deSeriMode, DeSeriModePerformValidation)
                  THEN IndexationSerializeChecks(u)
                  ELSE Nil)
        s2 == WriteTypeID(s1, IndexationPayloadTypeID)
        s3 == WriteVariableByteSlice(s2, u.Index, UInt16ByteSize)
        s4 == WriteVariableByteSlice(s3, u.Data, UInt32ByteSize)
    IN SerializerSerialize(s4)

----------------------------------------------------------------------------
(* Milestone: the codec *)

\* the public key checks of Milestone.Serialize with validation
MilestoneSerializeChecks(m) ==
    FirstErr(LexicalOrderWithoutDupsValidator(m.PublicKeys,
                 ErrMilestonePublicKeyOrderViolatesLexicalOrder),
        IF Len(m.PublicKeys) > MaxPublicKeysInAMilestone THEN ErrMilestoneTooManyPublicKeys
        ELSE IF Len(m.PublicKeys) < MinPublicKeysInAMilestone
        THEN ErrMilestoneTooFewPublicKeys
        ELSE IF Len(m.Signatures) > MaxSignaturesInAMilestone
        THEN ErrMilestoneTooManySignatures
        ELSE IF Len(m.Signatures) < MinSignaturesInAMilestone
        THEN ErrMilestoneTooFewSignatures
        ELSE Nil)

MilestoneSerialize(m, deSeriMode) ==
    LET s1 == SAbortIf(NewSerializer,
                  IF HasMode(deSeriMode, DeSeriModePerformValidation)
                  THEN MilestoneSerializeChecks(m) ELSE Nil)
        s2 == WriteTypeID(s1, MilestonePayloadTypeID)
        s3 == WriteNum(s2, m.Index)
        s4 == WriteNum(s3, m.Timestamp)
        s5 == WriteBytes(s4, m.Parent1)
        s6 == WriteBytes(s5, m.Parent2)
        s7 == WriteBytes(s6, m.InclusionMerkleProof)
        s8 == WriteArraySlice(s7, m.PublicKeys, OneByte)
        s9 == WriteArraySlice(s8, m.Signatures, OneByte)
    IN SerializerSerialize(s9)

\* Milestone.Deserialize without the order validator of the public keys
MilestoneDeserializePubKeyChecksNoOrder(m, deSeriMode) ==
    IF Len(m.PublicKeys) = 0 THEN ErrMilestoneTooFewPublicKeys ELSE Nil

\* the checks of Milestone.Deserialize once the public keys are read
MilestoneDeserializePubKeyChecks(m, deSeriMode) ==
    IF Len(m.PublicKeys) = 0 THEN ErrMilestoneTooFewPublicKeys
    ELSE IF HasMode(deSeriMode, DeSeriModePerformValidation)
    THEN LexicalOrderWithoutDupsValidator(m.PublicKeys,
             ErrMilestonePublicKeyOrderViolatesLexicalOrder)
    ELSE Nil

\* the check of Milestone.Deserialize once the signatures are read
MilestoneDeserializeCountCheck(m) ==
    IF Len(m.PublicKeys) # Len(m.Signatures)
    THEN ErrMilestoneSignaturesPublicKeyCountMismatch
    ELSE Nil

MilestoneDeserialize(m, data, deSeriMode) ==
    LET d0 == NewDeserializer(data, m)
        d1 == DAbortIf(d0, LAMBDA x :
                  IF HasMode(deSeriMode, DeSeriModePerformValidation)
                  THEN FirstErr(checkMinByteLength(MilestoneBinSerializedMinSize,
                                                   Len(data)),
                                checkType(data, MilestonePayloadTypeID))
                  ELSE Nil)
        d2 == Skip(d1, TypeDenotationByteSize)
        d3 == ReadNum(d2, UInt32ByteSize, "Index")
        d4 == ReadNum(d3, UInt64ByteSize, "Timestamp")
        d5 == ReadArray(d4, MessageIDLength, "Parent1")
        d6 == ReadArray(d5, MessageIDLength, "Parent2")
        d7 == ReadArray(d6, MilestoneInclusionMerkleProofLength, "InclusionMerkleProof")
        d8 == ReadSliceOfArrays(d7, OneByte, MilestonePublicKeyLength, "PublicKeys")
        d9 == DAbortIf(d8, LAMBDA x : MilestoneDeserializePubKeyChecks(x, deSeriMode))
        d10 == ReadSliceOfArrays(d9, OneByte, MilestoneSignatureLength, "Signatures")
        d11 == DAbortIf(d10, MilestoneDeserializeCountCheck)
    IN Done(d11, deSeriMode)

----------------------------------------------------------------------------
(* Milestone: creation, essence, signing and signature verification *)

\* sort.Slice with bytes.Compare(a, b) < 0: ascending, equal keys are kept
RECURSIVE InsertSorted(_, _)
InsertSorted(key, sorted0) ==
    Apply(LAMBDA sorted :
        IF Len(sorted) = 0 THEN <<key>>
        ELSE IF BytesCompare(key, Head(sorted)) < 0 THEN <<key>> \o sorted
        ELSE <<Head(sorted)>> \o InsertSorted(key, Tail(sorted)),
        sorted0)

RECURSIVE SortKeys(_)
SortKeys(keys) ==
    IF Len(keys) = 0 THEN <<>> ELSE InsertSorted(Head(keys), SortKeys(Tail(keys)))

\* NewMilestone without the sort
NewMilestoneNoSort(index, timestamp, parent1, parent2, inclMerkleProof, pubKeys) ==
    IF Len(pubKeys) < MinPublicKeysInAMilestone
    THEN [ms |-> NoObj, err |-> ErrMilestoneTooFewPublicKeys]
    ELSE [ms |-> MilestoneOf(index, timestamp, parent1, parent2, inclMerkleProof,
                             pubKeys, <<>>),
          err |-> Nil]

\* NewMilestone: ms is the new Milestone, NoObj (nil) with an error
NewMilestone(index, timestamp, parent1, parent2, inclMerkleProof, pubKeys) ==
    IF Len(pubKeys) < MinPublicKeysInAMilestone
    THEN [ms |-> NoObj, err |-> ErrMilestoneTooFewPublicKeys]
    ELSE [ms |-> MilestoneOf(index, timestamp, parent1, parent2, inclMerkleProof,
                             SortKeys(pubKeys), <<>>),
          err |-> Nil]

\* an essence that takes the signatures in
EssenceWithSignatures(m) ==
    LET s1 == SAbortIf(NewSerializer,
                  IF Len(m.PublicKeys) < MinPublicKeysInAMilestone
                  THEN ErrMilestoneTooFewPublicKeys ELSE Nil)
        s2 == WriteNum(s1, m.Index)
        s3 == WriteNum(s2, m.Timestamp)
        s4 == WriteBytes(s3, m.Parent1)
        s5 == WriteBytes(s4, m.Parent2)
        s6 == WriteBytes(s5, m.InclusionMerkleProof)
        s7 == WriteArraySlice(s6, m.PublicKeys, OneByte)
        s8 == WriteArraySlice(s7, m.Signatures, OneByte)
    IN SerializerSerialize(s8)

\* Essence: the bytes that are signed
Essence(m) ==
    LET s1 == SAbortIf(NewSerializer,
                  IF Len(m.PublicKeys) < MinPublicKeysInAMilestone
                  THEN ErrMilestoneTooFewPublicKeys ELSE Nil)
        s2 == WriteNum(s1, m.Index)
        s3 == WriteNum(s2, m.Timestamp)
        s4 == WriteBytes(s3, m.Parent1)
        s5 == WriteBytes(s4, m.Parent2)
        s6 == WriteBytes(s5, m.InclusionMerkleProof)
        s7 == WriteArraySlice(s6, m.PublicKeys, OneByte)
    IN SerializerSerialize(s7)

\* ed25519 as a deterministic signature scheme.  A private key is its 32 byte
\* seed, PublicKey derives the public key from it (one to one), Digest
\* stands for the hash of the message: the signature of msg under prv is the
\* public key followed by the digest, and Verify accepts exactly that
PublicKey(prv) == [i \in 1..32 |-> 255 - prv[i]]

\* the sum of i * msg[i] over lo..hi, modulo 2^16
RECURSIVE WeightedSum(_, _, _)
WeightedSum(msg, lo, hi) ==
    IF lo > hi THEN 0
    ELSE IF lo = hi THEN (lo * msg[lo]) % 65536
    ELSE (WeightedSum(msg, lo, (lo + hi) \div 2)
          + WeightedSum(msg, (lo + hi) \div 2 + 1, hi)) % 65536

Digest(msg0) ==
    Apply(LAMBDA msg :
        Apply(LAMBDA sum :
            [i \in 1..32 |->
                CASE i = 1 -> Len(msg) % 256
                  [] i = 2 -> (Len(msg) \div 256) % 256
                  [] i = 3 -> sum % 256
                  [] i = 4 -> sum \div 256
                  [] OTHER -> 0],
            WeightedSum(msg, 1, Len(msg))),
        msg0)

Ed25519Sign(prv, msg) == PublicKey(prv) \o Digest(msg)

Ed25519Verify(pub, msg, sig) == sig = pub \o Digest(msg)

\* the signing function InMemoryEd25519MilestoneSigner(prvKeys) returns;
\* prvKeys maps public keys to private keys
InMemoryEd25519MilestoneSigner(prvKeys, pubKeys, msEssence0) ==
    IF \E i \in 1..Len(pubKeys) : pubKeys[i] \notin DOMAIN prvKeys
    THEN [sigs |-> <<>>, err |-> ErrMilestoneInMemorySignerPrivateKeyMissing]
    ELSE Apply(LAMBDA msEssence :
             [sigs |-> [i \in 1..Len(pubKeys) |->
                           Copy(Zeros(MilestoneSignatureLength),
                                Ed25519Sign(prvKeys[pubKeys[i]], msEssence))],
              err |-> Nil],
             msEssence0)

\* a MilestoneSigningFunc: the in-memory signer over a key mapping, or a
\* function of the caller's that leaves the last signature out
SigningFunc(signer, pubKeys, msEssence) ==
    IF signer.kind = "InMemory"
    THEN InMemoryEd25519MilestoneSigner(signer.prvKeys, pubKeys, msEssence)
    ELSE Apply(LAMBDA r : [r EXCEPT !.sigs = SubSeq(@, 1, Len(@) - 1)],
               InMemoryEd25519MilestoneSigner(signer.prvKeys, pubKeys, msEssence))

\* a Sign that takes whatever the signing function produced
SignCountChecksNone(m, sigs) == Nil

\* the checks of Sign on the signatures produced
SignCountChecks(m, sigs) ==
    IF Len(m.PublicKeys) # Len(sigs) THEN ErrMilestoneProducedSignaturesCountMismatch
    ELSE IF Len(sigs) < MinSignaturesInAMilestone THEN ErrMilestoneTooFewSignatures
    ELSE IF Len(sigs) > MaxSignaturesInAMilestone THEN ErrMilestoneTooManySignatures
    ELSE Nil

\* Sign: m is the Milestone after the call
Sign(m, signer) ==
    Apply(LAMBDA e :
        IF e.err # Nil THEN [m |-> m, err |-> e.err]
        ELSE Apply(LAMBDA r :
                 IF r.err # Nil THEN [m |-> m, err |-> r.err]
                 ELSE Apply(LAMBDA err :
                          IF err # Nil THEN [m |-> m, err |-> err]
                          ELSE [m |-> [m EXCEPT !.Signatures = r.sigs], err |-> Nil],
                          SignCountChecks(m, r.sigs)),
                 SigningFunc(signer, m.PublicKeys, e.data)),
        Essence(m))

\* VerifySignatures asking for more signatures than the threshold
VerifyCountChecksOffByOne(m, minSigThreshold, applicablePubKeys) ==
    IF minSigThreshold = 0 THEN ErrMilestoneInvalidMinSignatureThreshold
    ELSE IF Len(m.Signatures) = 0 THEN ErrMilestoneTooFewSignatures
    ELSE IF Len(m.Signatures) # Len(m.PublicKeys)
    THEN ErrMilestoneSignaturesPublicKeyCountMismatch
    ELSE IF Len(m.Signatures) <= minSigThreshold
    THEN ErrMilestoneTooFewSignaturesForVerificationThreshold
    ELSE IF Cardinality(applicablePubKeys) < minSigThreshold
    THEN ErrMilestoneSignatureThresholdGreaterThanApplicablePublicKeySet
    ELSE Nil

\* the switch of VerifySignatures on the counts
VerifyCountChecks(m, minSigThreshold, applicablePubKeys) ==
    IF minSigThreshold = 0 THEN ErrMilestoneInvalidMinSignatureThreshold
    ELSE IF Len(m.Signatures) = 0 THEN ErrMilestoneTooFewSignatures
    ELSE IF Len(m.Signatures) # Len(m.PublicKeys)
    THEN ErrMilestoneSignaturesPublicKeyCountMismatch
    ELSE IF Len(m.Signatures) < minSigThreshold
    THEN ErrMilestoneTooFewSignaturesForVerificationThreshold
    ELSE IF Cardinality(applicablePubKeys) < minSigThreshold
    THEN ErrMilestoneSignatureThresholdGreaterThanApplicablePublicKeySet
    ELSE Nil

\* the loop body of VerifySignatures without the seenPubKeys lookup
VerifyAtNoSeen(m, applicablePubKeys, msEssence, i) ==
    IF m.PublicKeys[i] \notin applicablePubKeys THEN ErrMilestoneNonApplicablePublicKey
    ELSE IF ~Ed25519Verify(m.PublicKeys[i], msEssence, m.Signatures[i])
    THEN ErrMilestoneInvalidSignature
    ELSE Nil

\* the loop body of VerifySignatures at position i (positions count from 1);
\* seenPubKeys holds the keys of the positions before i
VerifyAt(m, applicablePubKeys, msEssence, i) ==
    IF \E j \in 1..(i - 1) : m.PublicKeys[j] = m.PublicKeys[i]
    THEN ErrMilestoneDuplicatedPublicKey
    ELSE IF m.PublicKeys[i] \notin applicablePubKeys THEN ErrMilestoneNonApplicablePublicKey
    ELSE IF ~Ed25519Verify(m.PublicKeys[i], msEssence, m.Signatures[i])
    THEN ErrMilestoneInvalidSignature
    ELSE Nil

\* the loop of VerifySignatures from position i on: pos is where it returned
\* an error, verified the calls of ed25519.Verify made
RECURSIVE VerifyFrom(_, _, _, _)
VerifyFrom(m, applicablePubKeys, msEssence, i) ==
    IF i > Len(m.PublicKeys) THEN [err |-> Nil, pos |-> 0, verified |-> i - 1]
    ELSE Apply(LAMBDA err :
             IF err = Nil THEN VerifyFrom(m, applicablePubKeys, msEssence, i + 1)
             ELSE [err |-> err, pos |-> i,
                   verified |-> IF err = ErrMilestoneInvalidSignature THEN i ELSE i - 1],
             VerifyAt(m, applicablePubKeys, msEssence, i))

VerifySignatures(m, minSigThreshold, applicablePubKeys) ==
    Apply(LAMBDA err :
        IF err # Nil THEN [err |-> err, pos |-> 0, verified |-> 0]
        ELSE Apply(LAMBDA e :
                 IF e.err # Nil THEN [err |-> e.err, pos |-> 0, verified |-> 0]
                 ELSE VerifyFrom(m, applicablePubKeys, e.data, 1),
                 Essence(m)),
        VerifyCountChecks(m, minSigThreshold, applicablePubKeys))

----------------------------------------------------------------------------
(* Message *)

\* the codec of the Transaction payload is outside this model: a call that
\* reaches it is not followed
Unmodelled == "unmodelled"

\* Serialize of the object in the payload slot of a message
PayloadSerialize(payload, deSeriMode) ==
    CASE payload.type = "Indexation" -> IndexationSerialize(payload, deSeriMode)
      [] payload.type = "Milestone" -> MilestoneSerialize(payload, deSeriMode)
      [] OTHER -> [data |-> <<>>, err |-> ErrUnknownPayloadType]

\* the payload types a Message carries
PayloadSelector(payloadType) ==
    CASE payloadType = IndexationPayloadTypeID ->
            [obj |-> ZeroValue("Indexation"), err |-> Nil]
      [] payloadType = MilestonePayloadTypeID ->
            [obj |-> ZeroValue("Milestone"), err |-> Nil]
      [] payloadType = TransactionPayloadTypeID -> [obj |-> NoObj, err |-> Unmodelled]
      [] OTHER -> [obj |-> NoObj, err |-> ErrUnknownPayloadType]

PayloadDeserialize(payload, data, deSeriMode) ==
    IF payload.type = "Indexation" THEN IndexationDeserialize(payload, data, deSeriMode)
    ELSE MilestoneDeserialize(payload, data, deSeriMode)

\* ReadPayload: a uint32 length; 0 is no payload; otherwise the payload type
\* selects the object, which deserializes itself from exactly that many bytes
ReadPayload(d0, deSeriMode, field) ==
    Apply(LAMBDA d :
        IF d.err # Nil THEN d
        ELSE IF Remaining(d) < UInt32ByteSize
        THEN [d EXCEPT !.err = ErrDeserializationNotEnoughData]
        ELSE LET length == GetLen(Slice(d.data, d.offset, UInt32ByteSize))
                 start == d.offset + UInt32ByteSize
             IN IF length = 0 THEN [d EXCEPT !.offset = start, !.obj[field] = NoObj]
                ELSE IF Len(d.data) - start < length \/ length < TypeDenotationByteSize
                THEN [d EXCEPT !.offset = start, !.err = ErrDeserializationNotEnoughData]
                ELSE Apply(LAMBDA sel :
                         IF sel.err # Nil THEN [d EXCEPT !.offset = start, !.err = sel.err]
                         ELSE Apply(LAMBDA r :
                                  IF r.err # Nil
                                  THEN [d EXCEPT !.offset = start, !.err = r.err]
                                  ELSE IF r.n # length
                                  THEN [d EXCEPT !.offset = start, !.err = ErrInvalidBytes]
                                  ELSE [d EXCEPT !.offset = start + length,
                                                 !.obj[field] = r.obj],
                                  PayloadDeserialize(sel.obj, Slice(d.data, start, length),
                                                     deSeriMode)),
                         PayloadSelector(
                             GetLen(Slice(d.data, start, TypeDenotationByteSize)))),
        d0)

\* the array rules of the parents without order and uniqueness
MessageParentArrayRulesNoOrder(parents) ==
    CheckMinMax(Len(parents), MinParentsInAMessage, MaxParentsInAMessage)

\* the array rules of the parents of a message: 1..8, in lexical order, unique
MessageParentArrayRules(parents) ==
    FirstErr(CheckMinMax(Len(parents), MinParentsInAMessage, MaxParentsInAMessage),
             LexicalOrderWithoutDupsValidator(parents,
                 ErrArrayValidationOrderViolatesLexicalOrder))

\* Message.Deserialize without the size cap
MessageDeserializeSizeCheckNone(data, deSeriMode) == Nil

\* the size cap of Message.Deserialize: on the whole buffer, with validation
MessageDeserializeSizeCheck(data, deSeriMode) ==
    IF HasMode(deSeriMode, DeSeriModePerformValidation)
       /\ Len(data) > MessageBinSerializedMaxSize
    THEN ErrDeserializationLengthInvalid
    ELSE Nil

MessageDeserialize(m, data, deSeriMode) ==
    LET d0 == NewDeserializer(data, m)
        d1 == DAbortIf(d0, LAMBDA x : MessageDeserializeSizeCheck(data, deSeriMode))
        d2 == ReadNum(d1, UInt64ByteSize, "NetworkID")
        d3 == ReadSliceOfArrays(d2, OneByte, MessageIDLength, "Parents")
        d4 == DAbortIf(d3, LAMBDA x :
                  IF HasMode(deSeriMode, DeSeriModePerformValidation)
                  THEN MessageParentArrayRules(x.Parents)
                  ELSE Nil)
        d5 == ReadPayload(d4, deSeriMode, "Payload")
        d6 == ReadNum(d5, UInt64ByteSize, "Nonce")
    IN Done(d6, deSeriMode)

\* Message.Serialize without the size cap
MessageSerializeSizeCheckNone(data, deSeriMode) == Nil

\* the size cap of Message.Serialize: on the bytes written, with validation
MessageSerializeSizeCheck(data, deSeriMode) ==
    IF HasMode(deSeriMode, DeSeriModePerformValidation)
       /\ Len(data) > MessageBinSerializedMaxSize
    THEN ErrMessageExceedsMaxSize
    ELSE Nil

MessageSerialize(m, deSeriMode) ==
    LET s1 == SAbortIf(NewSerializer,
                  IF HasMode(deSeriMode, DeSeriModePerformValidation)
                  THEN MessageParentArrayRules(m.Parents) ELSE Nil)
        s2 == WriteNum(s1, m.NetworkID)
        s3 == WriteArraySlice(s2, m.Parents, OneByte)
        s4 == WritePayload(s3, m.Payload.type # "nil", PayloadSerialize(m.Payload, deSeriMode))
        s5 == WriteNum(s4, m.Nonce)
    IN Apply(LAMBDA r :
           IF r.err = Nil /\ MessageSerializeSizeCheck(r.data, deSeriMode) # Nil
           THEN [data |-> <<>>, err |-> MessageSerializeSizeCheck(r.data, deSeriMode)]
           ELSE r,
           SerializerSerialize(s5))

----------------------------------------------------------------------------
(* MessageBuilder: the message under construction and the first error *)

NewMessageBuilder == [msg |-> ZeroValue("Message"), err |-> Nil]

\* a NetworkID that does not look at the error
MessageBuilderNetworkIDAlways(mb, networkID) == [mb EXCEPT !.msg.NetworkID = networkID]

MessageBuilderNetworkID(mb, networkID) ==
    IF mb.err # Nil THEN mb ELSE [mb EXCEPT !.msg.NetworkID = networkID]

\* a Payload that takes every Serializable
MessageBuilderPayloadAny(mb, seri) ==
    IF mb.err # Nil THEN mb ELSE [mb EXCEPT !.msg.Payload = seri]

MessageBuilderPayload(mb, seri) ==
    IF mb.err # Nil THEN mb
    ELSE IF seri.type \notin {"Indexation", "Milestone", "Transaction", "nil"}
    THEN [mb EXCEPT !.err = ErrUnknownPayloadType]
    ELSE [mb EXCEPT !.msg.Payload = seri]

\* every parent is copied into a MessageID and appended
MessageBuilderParents(mb, parents) ==
    IF mb.err # Nil THEN mb
    ELSE [mb EXCEPT !.msg.Parents =
             @ \o [i \in 1..Len(parents) |-> Copy(Zeros(MessageIDLength), parents[i])]]

MessageBuilderBuild(mb) ==
    IF mb.err # Nil THEN [msg |-> NoObj, err |-> mb.err]
    ELSE [msg |-> mb.msg, err |-> Nil]

\* nodeAPI.Tips() returned tipsRes: every tip is decoded from hex, the
\* first that is no hex string is the error, and Parents is called.  A tip
\* is kept as the bytes it decodes to; NotHex is a tip that does not decode
HexTip(bytes) == [hex |-> TRUE, bytes |-> bytes]
NotHex == [hex |-> FALSE, bytes |-> <<>>]
ErrNodeAPI == "ErrNodeAPI"
ErrHexDecode == "encoding/hex: invalid byte"

MessageBuilderTips(mb, tipsRes) ==
    IF mb.err # Nil THEN mb
    ELSE IF tipsRes.err # Nil THEN [mb EXCEPT !.err = tipsRes.err]
    ELSE IF \E nr \in 1..Len(tipsRes.tips) : ~tipsRes.tips[nr].hex
    THEN [mb EXCEPT !.err = ErrHexDecode]
    ELSE MessageBuilderParents(mb, [nr \in 1..Len(tipsRes.tips) |-> tipsRes.tips[nr].bytes])

\* The miner.  The hash of the message bytes is stood for by a 16 bit sum in
\* which every byte and the length count, the score by the number of
\* trailing zero bits of it; the search is over the nonces 0..MaxNonce
MaxNonce == 20

RECURSIVE OddWeightedSum(_, _, _)
OddWeightedSum(data, lo, hi) ==
    IF lo > hi THEN 0
    ELSE IF lo = hi THEN ((2 * lo + 1) * data[lo]) % 65536
    ELSE (OddWeightedSum(data, lo, (lo + hi) \div 2)
          + OddWeightedSum(data, (lo + hi) \div 2 + 1, hi)) % 65536

PowDigest(data) == (OddWeightedSum(data, 1, Len(data)) + Len(data)) % 65536

RECURSIVE TrailingZeros(_)
TrailingZeros(n) ==
    IF n = 0 THEN 16 ELSE IF n % 2 = 1 THEN 0 ELSE 1 + TrailingZeros(n \div 2)

\* the bytes of a message with its nonce reach the target score
PowSatisfies(data, targetScore) == TrailingZeros(PowDigest(data)) >= targetScore

ErrCancelled == "ErrCancelled"

\* worker.Mine(ctx, data, targetScore): what it may return, any nonce that
\* makes data followed by the nonce reach the target, or the cancellation
Mine(data, targetScore) ==
    {[nonce |-> U64(n), err |-> Nil] :
        n \in {k \in 0..MaxNonce : PowSatisfies(data \o PutUint(U64(k)), targetScore)}}
    \cup {[nonce |-> U64(0), err |-> ErrCancelled]}

\* a miner handed the serialized message as a whole
PowRelevantDataWhole(msgData) == msgData

\* cut out the nonce
PowRelevantData(msgData) == SubSeq(msgData, 1, Len(msgData) - UInt64ByteSize)

\* NetworkIDFromString(networkIDStr): the low 8 bytes of the hash of the
\* name, the hash stood for by the 16 bit sum of the miner
NetworkIDFromString(networkIDStr) == U64(PowDigest(networkIDStr))

MessageBuilderNetworkIDFromString(mb, networkIDStr) ==
    IF mb.err # Nil THEN mb
    ELSE [mb EXCEPT !.msg.NetworkID = NetworkIDFromString(networkIDStr)]

\* a ProofOfWork that sets the nonce whatever Mine returned
ProofOfWorkMinedAlways(mb, o) == [mb EXCEPT !.msg.Nonce = o.nonce]

\* what ProofOfWork does with the nonce and the error Mine returned
ProofOfWorkMined(mb, o) ==
    IF o.err # Nil THEN [mb EXCEPT !.err = o.err]
    ELSE [mb EXCEPT !.msg.Nonce = o.nonce]

\* the builders ProofOfWork may leave, each with the bytes handed to Mine
MessageBuilderProofOfWork(mb, targetScore) ==
    IF mb.err # Nil THEN {[mb |-> mb, mined |-> <<>>]}
    ELSE LET r == MessageSerialize(mb.msg, DeSeriModePerformValidation)
         IN IF r.err # Nil THEN {[mb |-> [mb EXCEPT !.err = r.err], mined |-> <<>>]}
            ELSE {[mb |-> ProofOfWorkMined(mb, o),
                   mined |-> PowRelevantData(r.data)] :
                      o \in Mine(PowRelevantData(r.data), targetScore)}

----------------------------------------------------------------------------
(* Unlock blocks: the ReferenceUnlockBlock codec, the selector and the     *)
(* validation of the unlock blocks of a transaction                        *)

ReferenceUnlockBlockDeserialize(r, data, deSeriMode) ==
    LET d0 == NewDeserializer(data, r)
        d1 == DAbortIf(d0, LAMBDA x :
                  IF HasMode(deSeriMode, DeSeriModePerformValidation)
                  THEN FirstErr(checkMinByteLength(ReferenceUnlockBlockSize, Len(data)),
                                checkTypeByte(data, UnlockBlockReference))
                  ELSE Nil)
        d2 == Skip(d1, SmallTypeDenotationByteSize)
        d3 == ReadNum(d2, UInt16ByteSize, "Reference")
    IN Done(d3, deSeriMode)

\* a Serialize that checks the reference against the most unlock blocks a
\* transaction may have
ReferenceUnlockBlockSerializeChecked(r, deSeriMode) ==
    LET s0 == SAbortIf(NewSerializer,
                  IF HasMode(deSeriMode, DeSeriModePerformValidation) /\ r.Reference[1] > 126
                  THEN ErrUnlockBlocksValidation ELSE Nil)
        s1 == WriteByte(s0, UnlockBlockReference)
        s2 == WriteNum(s1, r.Reference)
    IN SerializerSerialize(s2)

ReferenceUnlockBlockSerialize(r, deSeriMode) ==
    LET s1 == WriteByte(NewSerializer, UnlockBlockReference)
        s2 == WriteNum(s1, r.Reference)
    IN SerializerSerialize(s2)

\* the unlock block of a type tag
UnlockBlockSelector(unlockBlockType) ==
    CASE unlockBlockType = UnlockBlockSignature ->
            [obj |-> ZeroValue("SignatureUnlockBlock"), err |-> Nil]
      [] unlockBlockType = UnlockBlockReference ->
            [obj |-> ZeroValue("ReferenceUnlockBlock"), err |-> Nil]
      [] OTHER -> [obj |-> NoObj, err |-> ErrUnknownUnlockBlockType]

\* the validator remembers the public keys and the positions of the signature
\* blocks it has seen
NewSigUniqueAndRefValidator == [seenEdPubKeys |-> {}, seenSigBlocks |-> {}]

\* the validator that lets every reference pass
UnlockBlocksSigUniqueValidatorOnly(v, index, unlockBlock) ==
    IF unlockBlock.type = "SignatureUnlockBlock"
    THEN IF unlockBlock.Signature.PublicKey \in v.seenEdPubKeys
         THEN [v |-> v, err |-> ErrUnlockBlocksValidation]
         ELSE [v |-> [seenEdPubKeys |-> v.seenEdPubKeys \cup {unlockBlock.Signature.PublicKey},
                      seenSigBlocks |-> v.seenSigBlocks \cup {index}],
               err |-> Nil]
    ELSE [v |-> v, err |-> Nil]

\* the validator that lets every signature block pass
UnlockBlocksRefValidatorOnly(v, index, unlockBlock) ==
    IF unlockBlock.type = "SignatureUnlockBlock"
    THEN [v |-> [seenEdPubKeys |-> v.seenEdPubKeys \cup {unlockBlock.Signature.PublicKey},
                 seenSigBlocks |-> v.seenSigBlocks \cup {index}],
          err |-> Nil]
    ELSE IF unlockBlock.Reference[1] \notin v.seenSigBlocks
    THEN [v |-> v, err |-> ErrUnlockBlocksValidation]
    ELSE [v |-> v, err |-> Nil]

\* UnlockBlocksSigUniqueAndRefValidator, one call of the function it returns:
\* a signature block must carry a public key not seen before, a reference
\* block must reference the position of a signature block seen before
UnlockBlocksSigUniqueAndRefValidator(v, index, unlockBlock) ==
    IF unlockBlock.type = "SignatureUnlockBlock"
    THEN IF unlockBlock.Signature.PublicKey \in v.seenEdPubKeys
         THEN [v |-> v, err |-> ErrUnlockBlocksValidation]
         ELSE [v |-> [seenEdPubKeys |-> v.seenEdPubKeys \cup {unlockBlock.Signature.PublicKey},
                      seenSigBlocks |-> v.seenSigBlocks \cup {index}],
               err |-> Nil]
    ELSE IF unlockBlock.Reference[1] \notin v.seenSigBlocks
    THEN [v |-> v, err |-> ErrUnlockBlocksValidation]
    ELSE [v |-> v, err |-> Nil]

\* ValidateUnlockBlocks from position index (0 based) on
RECURSIVE ValidateUnlockBlocksFrom(_, _, _)
ValidateUnlockBlocksFrom(unlockBlocks, index, v) ==
    IF index >= Len(unlockBlocks) THEN Nil
    ELSE IF unlockBlocks[index + 1].type \notin {"SignatureUnlockBlock", "ReferenceUnlockBlock"}
    THEN ErrUnknownUnlockBlockType
    ELSE Apply(LAMBDA r :
                   IF r.err # Nil THEN r.err
                   ELSE ValidateUnlockBlocksFrom(unlockBlocks, index + 1, r.v),
               UnlockBlocksSigUniqueAndRefValidator(v, index, unlockBlocks[index + 1]))

\* ValidateUnlockBlocks(unlockBlocks, UnlockBlocksSigUniqueAndRefValidator())
ValidateUnlockBlocks(unlockBlocks) ==
    ValidateUnlockBlocksFrom(unlockBlocks, 0, NewSigUniqueAndRefValidator)

----------------------------------------------------------------------------
(* Serialize and Deserialize of any object, by its type *)

Serialize(obj, deSeriMode) ==
    CASE obj.type = "Ed25519Address" -> Ed25519AddressSerialize(obj, deSeriMode)
      [] obj.type = "TreasuryInput" -> TreasuryInputSerialize(obj, deSeriMode)
      [] obj.type = "SigLockedSingleOutput" -> SigLockedSingleOutputSerialize(obj, deSeriMode)
      [] obj.type = "SigLockedDustAllowanceOutput" ->
            SigLockedDustAllowanceOutputSerialize(obj, deSeriMode)
      [] obj.type = "TreasuryOutput" -> TreasuryOutputSerialize(obj, deSeriMode)
      [] obj.type = "Indexation" -> IndexationSerialize(obj, deSeriMode)
      [] obj.type = "Milestone" -> MilestoneSerialize(obj, deSeriMode)
      [] obj.type = "Message" -> MessageSerialize(obj, deSeriMode)
      [] obj.type = "ReferenceUnlockBlock" -> ReferenceUnlockBlockSerialize(obj, deSeriMode)

Deserialize(obj, data, deSeriMode) ==
    CASE obj.type = "Ed25519Address" -> Ed25519AddressDeserialize(obj, data, deSeriMode)
      [] obj.type = "TreasuryInput" -> TreasuryInputDeserialize(obj, data, deSeriMode)
      [] obj.type = "SigLockedSingleOutput" ->
            SigLockedSingleOutputDeserialize(obj, data, deSeriMode)
      [] obj.type = "SigLockedDustAllowanceOutput" ->
            SigLockedDustAllowanceOutputDeserialize(obj, data, deSeriMode)
      [] obj.type = "TreasuryOutput" -> TreasuryOutputDeserialize(obj, data, deSeriMode)
      [] obj.type = "Indexation" -> IndexationDeserialize(obj, data, deSeriMode)
      [] obj.type = "Milestone" -> MilestoneDeserialize(obj, data, deSeriMode)
      [] obj.type = "Message" -> MessageDeserialize(obj, data, deSeriMode)
      [] obj.type = "ReferenceUnlockBlock" ->
            ReferenceUnlockBlockDeserialize(obj, data, deSeriMode)

----------------------------------------------------------------------------
(* Bounds of the model and the inputs drawn within them *)

MaxCodecKeys == 2      \* public keys and signatures of a Milestone of the codec runs
MaxParents == 2        \* parents of a Message drawn from the pool
MaxDataLen == 2        \* bytes of data of a small Indexation
MaxMutPos == 50        \* a caller's buffer differs from a serialized one up to here
MaxCut == 2            \* bytes a caller's buffer is cut short by at its end
MaxBlocks == 3         \* unlock blocks handed to ValidateUnlockBlocks
MaxStringPos == 8      \* a caller's string differs from an encoded one up to here
MaxKeys == 2           \* public keys handed to NewMilestone

\* a 32 byte array with first byte a and last byte b
Hash32(a, b) == [i \in 1..32 |-> IF i = 1 THEN a ELSE IF i = 32 THEN b ELSE 0]
H1 == Hash32(0, 1)
H2 == Hash32(0, 2)
H3 == Hash32(1, 0)

\* a 64 byte array that is no signature of anything
Sig64(b) == [i \in 1..64 |-> IF i = 1 THEN b ELSE 0]

SeqsUpTo(S, n) == UNION {[1..k -> S] : k \in 0..n}

\* TokenSupply + 1
OverSupply == <<24002, 54061, 57335, 9>>
\* OutputSigLockedDustAllowanceOutputMinDeposit - 1
UnderDust == <<16959, 15, 0, 0>>

Addresses == {NewEd25519Address(H1), NewEd25519Address(H3)}

LeafEntities ==
    Addresses
    \cup {NewTreasuryInput(H2)}
    \cup {NewSigLockedSingleOutput(a, n) :
            a \in Addresses \cup {NoObj}, n \in {U64(0), U64(1), TokenSupply, OverSupply}}
    \cup {NewSigLockedDustAllowanceOutput(NewEd25519Address(H1), n) :
            n \in {UnderDust, OutputSigLockedDustAllowanceOutputMinDeposit,
                   TokenSupply, OverSupply}}
    \cup {NewTreasuryOutput(n) : n \in {U64(0), TokenSupply, OverSupply}}

IndexLens == {0, 1, IndexationIndexMaxLength, IndexationIndexMaxLength + 1}

Indexations ==
    {NewIndexation([i \in 1..l |-> 65], Zeros(k)) : l \in IndexLens, k \in 0..MaxDataLen}

CodecMilestones ==
    {MilestoneOf(U32(7), U64(9), H1, H2, H3, keys, [i \in 1..k |-> Sig64(i)]) :
        keys \in SeqsUpTo({H1, H2}, MaxCodecKeys), k \in 0..MaxCodecKeys}

\* nine parents in lexical order: one more than a message may have
NineParents == [i \in 1..(MaxParentsInAMessage + 1) |-> Hash32(0, i)]

\* a message of one parent and an Indexation of a 1 byte index and n bytes
\* of data takes 8 + (1 + 32) + 4 + (4 + 2 + 1 + 4 + n) + 8 = n + 64 bytes:
\* data lengths that make a message of exactly the maximum size, and of one
\* byte more
SizeCapDataLens == {MessageBinSerializedMaxSize - 64, MessageBinSerializedMaxSize - 63}

\* NewMessageBuilder().NetworkID(1).Parents(parents).Payload(payload).Build()
BuildMessage(parents, payload) ==
    MessageBuilderBuild(
        MessageBuilderPayload(
            MessageBuilderParents(
                MessageBuilderNetworkID(NewMessageBuilder, U64(1)), parents),
            payload)).msg

SizeCapMessages ==
    {BuildMessage(<<H1>>, NewIndexation(<<65>>, Zeros(n))) : n \in SizeCapDataLens}
    \cup {BuildMessage(<<H2, H1>>,
                       NewIndexation(<<65>>, Zeros(MessageBinSerializedMaxSize)))}

Messages ==
    {BuildMessage(parents, NoObj) :
        parents \in SeqsUpTo({H1, H2}, MaxParents) \cup {NineParents}}
    \cup {BuildMessage(<<H1>>, payload) : payload \in Indexations \cup CodecMilestones}
    \cup SizeCapMessages

\* Indexations whose data alone is as long as the largest message, and one
\* byte longer
SizeCapIndexations ==
    {NewIndexation(<<65>>, Zeros(n)) :
        n \in {MessageBinSerializedMaxSize, MessageBinSerializedMaxSize + 1}}

Entities ==
    LeafEntities \cup Indexations \cup SizeCapIndexations \cup CodecMilestones
    \cup Messages

MutVals == {0, 1, 2}

SetByte(buf, p, v) == [buf EXCEPT ![p] = v]

\* the buffers a caller hands to Deserialize: a serialized object as it is,
\* cut short, extended by a byte, or with one byte changed
Tampered(buf) ==
    {buf, buf \o <<0>>}
    \cup {SubSeq(buf, 1, k) : k \in 0..Min(Len(buf), MaxMutPos)}
    \cup {SubSeq(buf, 1, Len(buf) - j) : j \in 1..Min(Len(buf), MaxCut)}
    \cup {SetByte(buf, p, v) : p \in 1..Min(Len(buf), MaxMutPos), v \in MutVals}

----------------------------------------------------------------------------
(* The codec as a state machine: a caller holds an object, serializes it,   *)
(* hands a buffer to Deserialize and serializes what came out.              *)

NoDe == [mode |-> "none", buf |-> <<>>, pre |-> NoObj, obj |-> NoObj, n |-> 0,
         err |-> Nil]

NoSer == [obj |-> NoObj, mode |-> "none", data |-> <<>>, err |-> Nil]

\* no Milestone yet (a nil *Milestone), no call yet
NoMs == NoObj
NoSigner == [kind |-> "none"]
NoCall == [op |-> "none", err |-> Nil, made |-> "none", signer |-> NoSigner,
           minSigThreshold |-> 0, applicablePubKeys |-> {}, pos |-> 0, verified |-> 0,
           mode |-> "none"]

\* no MessageBuilder yet; otherwise the builder and the last call on it, with
\* the parents or the target score it was given and the bytes it had mined
NoBuilder == [mb |-> [msg |-> NoObj, err |-> Nil], last |-> "none", parents |-> <<>>,
              seri |-> NoObj,
              targetScore |-> 0, mined |-> <<>>]

\* a caller that exercises the codec on one of entities
InitEntities(entities) ==
    /\ pc = "start"
    /\ ser \in {[NoSer EXCEPT !.obj = e] : e \in entities}
    /\ de = NoDe
    /\ ms = NoMs
    /\ call = NoCall
    /\ builder = NoBuilder

\* a caller that is about to create a Milestone
InitMilestone ==
    /\ pc = "milestone"
    /\ ser = NoSer
    /\ de = NoDe
    /\ ms = NoMs
    /\ call = NoCall
    /\ builder = NoBuilder

Init == InitEntities(Entities) \/ InitMilestone

\* x.Serialize(deSeriMode), on the object constructed or on the one the last
\* Deserialize filled
DoSerialize ==
    /\ \/ pc = "start"
       \/ pc = "deserialized" /\ de.err = Nil
    /\ \E deSeriMode \in DeSeriModes :
        \E x \in {IF pc = "start" THEN ser.obj ELSE de.obj} :
            \E r \in {Serialize(x, deSeriMode)} :
                ser' = [obj |-> x, mode |-> deSeriMode, data |-> r.data, err |-> r.err]
    /\ pc' = IF pc = "start" THEN "serialized" ELSE "reserialized"
    /\ UNCHANGED <<de, ms, call, builder>>

\* x.Deserialize(data, deSeriMode) on a zero value x := &T{}
DoDeserialize ==
    /\ pc = "serialized"
    /\ ser.err = Nil
    /\ \E deSeriMode \in DeSeriModes, data \in Tampered(ser.data) :
        \E x \in {ZeroValue(ser.obj.type)} :
            \E r \in {Deserialize(x, data, deSeriMode)} :
                /\ r.err # Unmodelled
                /\ de' = [mode |-> deSeriMode, buf |-> data, pre |-> x, obj |-> r.obj,
                          n |-> r.n, err |-> r.err]
    /\ pc' = "deserialized"
    /\ UNCHANGED <<ser, ms, call, builder>>

----------------------------------------------------------------------------
(* The life of a Milestone: created by NewMilestone or as a struct literal, *)
(* signed, verified, serialized.  call holds the last call and its outcome, *)
(* call.made how ms was created and call.signer the signer that the         *)
(* signatures of ms came from.                                              *)

\* the private key whose first byte is b, and the key pool of the runs
Prv(b) == [i \in 1..32 |-> IF i = 1 THEN b ELSE 0]
PrvPool == {Prv(1), Prv(2), Prv(3)}
KeyPool == {PublicKey(prv) : prv \in PrvPool}
PrvOf(pub) == CHOOSE prv \in PrvPool : PublicKey(prv) = pub

\* the signers: an in-memory signer holding every private key, one that lacks
\* the key of Prv(2), one that holds Prv(1) for every public key, and a signing
\* function that returns a signature too few
AllKeysSigner == [kind |-> "InMemory", prvKeys |-> [pub \in KeyPool |-> PrvOf(pub)]]
MissingKeySigner ==
    [kind |-> "InMemory",
     prvKeys |-> [pub \in KeyPool \ {PublicKey(Prv(2))} |-> PrvOf(pub)]]
WrongKeySigner == [kind |-> "InMemory", prvKeys |-> [pub \in KeyPool |-> Prv(1)]]
ShortSigner == [kind |-> "Short", prvKeys |-> [pub \in KeyPool |-> PrvOf(pub)]]
Signers == {AllKeysSigner, MissingKeySigner, WrongKeySigner, ShortSigner}

\* a Milestone written as a struct literal: two keys in order, one signature
LiteralMilestones ==
    {MilestoneOf(U32(7), U64(9), H1, H2, H3,
                 <<PublicKey(Prv(2)), PublicKey(Prv(1))>>, <<Sig64(1)>>),
     MilestoneOf(U32(7), U64(9), H1, H2, H3, <<>>, <<Sig64(1)>>)}

Thresholds == (0 - 1)..(MaxKeys + 1)

\* ms, err := NewMilestone(7, 9, H1, H2, H3, pubKeys)
DoNewMilestone ==
    /\ pc = "milestone"
    /\ call.op = "none"
    /\ \E pubKeys \in SeqsUpTo(KeyPool, MaxKeys) :
        \E r \in {NewMilestone(U32(7), U64(9), H1, H2, H3, pubKeys)} :
            /\ ms' = r.ms
            /\ call' = [NoCall EXCEPT !.op = "NewMilestone", !.err = r.err,
                                      !.made = "NewMilestone"]
    /\ UNCHANGED <<pc, ser, de, builder>>

\* ms := &Milestone{...}
DoMilestoneLiteral ==
    /\ pc = "milestone"
    /\ call.op = "none"
    /\ ms' \in LiteralMilestones
    /\ call' = [NoCall EXCEPT !.op = "Literal", !.made = "Literal"]
    /\ UNCHANGED <<pc, ser, de, builder>>

\* err := ms.Sign(signer)
DoSign ==
    /\ pc = "milestone"
    /\ ms # NoMs
    /\ \E signer \in Signers :
        \E r \in {Sign(ms, signer)} :
            /\ ms' = r.m
            /\ call' = [NoCall EXCEPT !.op = "Sign", !.err = r.err, !.made = call.made,
                                      !.signer = IF r.err = Nil THEN signer
                                                 ELSE call.signer]
    /\ UNCHANGED <<pc, ser, de, builder>>

\* err := ms.VerifySignatures(minSigThreshold, applicablePubKeys)
DoVerifySignatures ==
    /\ pc = "milestone"
    /\ ms # NoMs
    /\ \E minSigThreshold \in Thresholds, applicablePubKeys \in SUBSET KeyPool :
        \E r \in {VerifySignatures(ms, minSigThreshold, applicablePubKeys)} :
            call' = [NoCall EXCEPT !.op = "VerifySignatures", !.err = r.err,
                                   !.made = call.made, !.signer = call.signer,
                                   !.minSigThreshold = minSigThreshold,
                                   !.applicablePubKeys = applicablePubKeys,
                                   !.pos = r.pos, !.verified = r.verified]
    /\ UNCHANGED <<pc, ser, de, ms, builder>>

\* data, err := ms.Serialize(deSeriMode)
DoMilestoneSerialize ==
    /\ pc = "milestone"
    /\ ms # NoMs
    /\ \E deSeriMode \in DeSeriModes :
        \E r \in {MilestoneSerialize(ms, deSeriMode)} :
            call' = [NoCall EXCEPT !.op = "Serialize", !.err = r.err,
                                   !.made = call.made, !.signer = call.signer,
                                   !.mode = deSeriMode]
    /\ UNCHANGED <<pc, ser, de, ms, builder>>

Next ==
    \/ DoSerialize
    \/ DoDeserialize
    \/ DoNewMilestone
    \/ DoMilestoneLiteral
    \/ DoSign
    \/ DoVerifySignatures
    \/ DoMilestoneSerialize

Spec == Init /\ [][Next]_vars

----------------------------------------------------------------------------
(* The codec of the fixed size entities on its own *)

\* reference blocks with the least, the greatest and some other references
ReferenceUnlockBlocks ==
    {NewReferenceUnlockBlock(<<j>>) : j \in {0, 1, 127, 255, 256, 999, 65535}}

CodecEntities == LeafEntities \cup ReferenceUnlockBlocks

InitCodec == InitEntities(CodecEntities)

NextCodec ==
    \/ DoSerialize
    \/ DoDeserialize

SpecCodec == InitCodec /\ [][NextCodec]_vars

----------------------------------------------------------------------------
(* The functions a caller uses on their own: the validation of unlock      *)
(* blocks, the selectors, the Bech32 encoding of an address and the        *)
(* MessageBuilder.  call holds the last function call and its outcome.     *)

InitApi ==
    /\ pc = "api"
    /\ ser = NoSer
    /\ de = NoDe
    /\ ms = NoMs
    /\ call = NoCall
    /\ builder = NoBuilder

\* the unlock blocks of the runs: signature blocks of two public keys, one
\* key with two signatures, and references to the positions 0..MaxBlocks
UnlockBlockPool ==
    {NewSignatureUnlockBlock(NewEd25519Signature(k, s)) :
        <<k, s>> \in {<<H1, Sig64(1)>>, <<H2, Sig64(1)>>, <<H1, Sig64(2)>>}}
    \cup {NewReferenceUnlockBlock(<<j>>) : j \in 0..MaxBlocks}

DoValidateUnlockBlocks ==
    /\ pc = "api"
    /\ \E unlockBlocks \in SeqsUpTo(UnlockBlockPool, MaxBlocks) :
        call' = [op |-> "ValidateUnlockBlocks", unlockBlocks |-> unlockBlocks,
                 err |-> ValidateUnlockBlocks(unlockBlocks)]
    /\ pc' = "returned"
    /\ UNCHANGED <<ser, de, ms, builder>>

\* the tags handed to a selector: the defined ones, their neighbours, the
\* multiples of 256
SelectorTags == {0, 1, 2, 100, 255, 256, 257, 512, 65536}

DoAddressSelector ==
    /\ pc = "api"
    /\ \E addressType \in SelectorTags :
        \E r \in {AddressSelector(addressType)} :
            call' = [op |-> "AddressSelector", tag |-> addressType, obj |-> r.obj,
                     err |-> r.err]
    /\ pc' = "returned"
    /\ UNCHANGED <<ser, de, ms, builder>>

DoUnlockBlockSelector ==
    /\ pc = "api"
    /\ \E unlockBlockType \in SelectorTags :
        \E r \in {UnlockBlockSelector(unlockBlockType)} :
            call' = [op |-> "UnlockBlockSelector", tag |-> unlockBlockType, obj |-> r.obj,
                     err |-> r.err]
    /\ pc' = "returned"
    /\ UNCHANGED <<ser, de, ms, builder>>

\* an address of bytes of every kind
MixedAddress == NewEd25519Address([i \in 1..32 |-> (37 * i + 11) % 256])
OnesAddress == NewEd25519Address([i \in 1..32 |-> 255])

Bech32Addresses == Addresses \cup {MixedAddress, OnesAddress, ZeroValue("Ed25519Address")}

\* a.Bech32(hrp)
DoBech32 ==
    /\ pc = "api"
    /\ \E edAddr \in Bech32Addresses, hrp \in {PrefixMainnet, PrefixTestnet} :
        call' = [op |-> "Bech32", addr |-> edAddr, hrp |-> hrp,
                 s |-> Ed25519AddressBech32(edAddr, hrp)]
    /\ pc' = "encoded"
    /\ UNCHANGED <<ser, de, ms, builder>>

\* the strings a caller hands to ParseBech32: an encoded address as it is,
\* with one character changed or without its last character
TamperedStrings(s) ==
    {s, SubSeq(s, 1, Len(s) - 1)}
    \cup {[s EXCEPT ![p] = ch] : p \in 1..Min(Len(s), MaxStringPos), ch \in {"q", "a", "1", "b"}}

DoParseBech32 ==
    /\ pc = "encoded"
    /\ \E s \in TamperedStrings(call.s) :
        \E r \in {ParseBech32(s)} :
            call' = [op |-> "ParseBech32", addr |-> call.addr, hrp |-> call.hrp,
                     encoded |-> call.s, s |-> s, prefix |-> r.prefix,
                     parsed |-> r.addr, err |-> r.err]
    /\ pc' = "returned"
    /\ UNCHANGED <<ser, de, ms, builder>>

NextApi ==
    \/ DoValidateUnlockBlocks
    \/ DoAddressSelector
    \/ DoUnlockBlockSelector
    \/ DoBech32
    \/ DoParseBech32

SpecApi == InitApi /\ [][NextApi]_vars

----------------------------------------------------------------------------
(* The MessageBuilder as a state machine: a caller creates a builder, calls *)
(* its steps in any order and builds the message.                           *)

MaxBuilderParents == 3   \* parents a builder is given in all

\* a parent of fewer bytes than a message ID
ShortParent == <<7, 7>>

\* the lists handed to Parents
ParentLists == {<<>>, <<H1>>, <<H2>>, <<H1, H2>>, <<H2, H1>>, <<ShortParent>>}

\* what nodeAPI.Tips() returns
TipsResults ==
    {[tips |-> p, err |-> Nil] :
        p \in {<<HexTip(H1)>>, <<HexTip(H1), HexTip(H2)>>, <<NotHex>>}}
    \cup {[tips |-> <<>>, err |-> ErrNodeAPI]}

BuilderPayloads == {NoObj, NewIndexation(<<65>>, <<>>), NewEd25519Address(H1)}

TargetScores == {1, 4}

InitBuilder ==
    /\ pc = "new"
    /\ ser = NoSer
    /\ de = NoDe
    /\ ms = NoMs
    /\ call = NoCall
    /\ builder = NoBuilder

DoNewMessageBuilder ==
    /\ pc = "new"
    /\ builder' = [NoBuilder EXCEPT !.mb = NewMessageBuilder, !.last = "NewMessageBuilder"]
    /\ pc' = "building"
    /\ UNCHANGED <<ser, de, ms, call>>

\* the network IDs and network names handed to the builder
NetworkIDs == {U64(1)}
NetworkNames == {<<109, 97, 105, 110>>}

DoNetworkID ==
    /\ pc = "building"
    /\ \E networkID \in NetworkIDs :
        builder' = [NoBuilder EXCEPT !.mb = MessageBuilderNetworkID(builder.mb, networkID),
                                   !.last = "NetworkID"]
    /\ UNCHANGED <<pc, ser, de, ms, call>>

DoNetworkIDFromString ==
    /\ pc = "building"
    /\ \E networkIDStr \in NetworkNames :
        builder' = [NoBuilder EXCEPT
                       !.mb = MessageBuilderNetworkIDFromString(builder.mb, networkIDStr),
                       !.last = "NetworkIDFromString"]
    /\ UNCHANGED <<pc, ser, de, ms, call>>

DoPayload ==
    /\ pc = "building"
    /\ \E seri \in BuilderPayloads :
        builder' = [NoBuilder EXCEPT !.mb = MessageBuilderPayload(builder.mb, seri),
                                   !.last = "Payload", !.seri = seri]
    /\ UNCHANGED <<pc, ser, de, ms, call>>

DoParents ==
    /\ pc = "building"
    /\ \E parents \in ParentLists :
        /\ Len(builder.mb.msg.Parents) + Len(parents) <= MaxBuilderParents
        /\ builder' = [NoBuilder EXCEPT !.mb = MessageBuilderParents(builder.mb, parents),
                                        !.last = "Parents", !.parents = parents]
    /\ UNCHANGED <<pc, ser, de, ms, call>>

DoTips ==
    /\ pc = "building"
    /\ \E tipsRes \in TipsResults :
        /\ Len(builder.mb.msg.Parents) + Len(tipsRes.tips) <= MaxBuilderParents
        /\ builder' = [NoBuilder EXCEPT !.mb = MessageBuilderTips(builder.mb, tipsRes),
                                        !.last = "Tips"]
    /\ UNCHANGED <<pc, ser, de, ms, call>>

DoProofOfWork ==
    /\ pc = "building"
    /\ \E targetScore \in TargetScores :
        \E r \in MessageBuilderProofOfWork(builder.mb, targetScore) :
            builder' = [NoBuilder EXCEPT !.mb = r.mb, !.last = "ProofOfWork",
                                        !.targetScore = targetScore, !.mined = r.mined]
    /\ UNCHANGED <<pc, ser, de, ms, call>>

DoBuild ==
    /\ pc = "building"
    /\ \E r \in {MessageBuilderBuild(builder.mb)} :
        call' = [op |-> "Build", msg |-> r.msg, err |-> r.err]
    /\ pc' = "built"
    /\ UNCHANGED <<ser, de, ms, builder>>

NextBuilder ==
    \/ DoNewMessageBuilder
    \/ DoNetworkID
    \/ DoNetworkIDFromString
    \/ DoPayload
    \/ DoParents
    \/ DoTips
    \/ DoProofOfWork
    \/ DoBuild

SpecBuilder == InitBuilder /\ [][NextBuilder]_vars

----------------------------------------------------------------------------
(* A chained Deserialize or Serialize one step at a time: every method of   *)
(* the chain is a step on the Deserializer or Serializer the chain passes   *)
(* on, and Done or Serialize ends it.                                       *)

\* the number of steps between NewDeserializer and Done
DeserializeSteps(type) ==
    CASE type = "SigLockedSingleOutput" -> 5
      [] type = "Indexation" -> 5
      [] type = "Milestone" -> 11

\* step i of the chain of the Deserialize of type
DeserializeStep(type, i, d, deSeriMode) ==
    CASE type = "SigLockedSingleOutput" ->
           (CASE i = 1 -> DAbortIf(d, LAMBDA x :
                              IF HasMode(deSeriMode, DeSeriModePerformValidation)
                              THEN FirstErr(checkMinByteLength(
                                                SigLockedSingleOutputBytesMinSize,
                                                Len(d.data)),
                                            checkTypeByte(d.data,
                                                OutputSigLockedSingleOutput))
                              ELSE Nil)
              [] i = 2 -> Skip(d, SmallTypeDenotationByteSize)
              [] i = 3 -> ReadAddress(d, deSeriMode, "Address")
              [] i = 4 -> ReadNum(d, UInt64ByteSize, "Amount")
              [] i = 5 -> DAbortIf(d, LAMBDA x :
                              IF HasMode(deSeriMode, DeSeriModePerformValidation)
                              THEN outputAmountValidator(x)
                              ELSE Nil))
      [] type = "Indexation" ->
           (CASE i = 1 -> DAbortIf(d, LAMBDA x :
                              IF HasMode(deSeriMode, DeSeriModePerformValidation)
                              THEN FirstErr(checkMinByteLength(
                                                IndexationBinSerializedMinSize,
                                                Len(d.data)),
                                            checkType(d.data, IndexationPayloadTypeID))
                              ELSE Nil)
              [] i = 2 -> Skip(d, TypeDenotationByteSize)
              [] i = 3 -> ReadVariableByteSlice(d, UInt16ByteSize,
                                                IndexationIndexMaxLength, "Index")
              [] i = 4 -> DAbortIf(d, LAMBDA x :
                              IF HasMode(deSeriMode, DeSeriModePerformValidation)
                                 /\ Len(x.Index) < IndexationIndexMinLength
                              THEN ErrIndexationIndexUnderMinSize
                              ELSE Nil)
              [] i = 5 -> ReadVariableByteSlice(d, UInt32ByteSize,
                                                MessageBinSerializedMaxSize, "Data"))
      [] type = "Milestone" ->
           (CASE i = 1 -> DAbortIf(d, LAMBDA x :
                              IF HasMode(deSeriMode, DeSeriModePerformValidation)
                              THEN FirstErr(checkMinByteLength(
                                                MilestoneBinSerializedMinSize,
                                                Len(d.data)),
                                            checkType(d.data, MilestonePayloadTypeID))
                              ELSE Nil)
              [] i = 2 -> Skip(d, TypeDenotationByteSize)
              [] i = 3 -> ReadNum(d, UInt32ByteSize, "Index")
              [] i = 4 -> ReadNum(d, UInt64ByteSize, "Timestamp")
              [] i = 5 -> ReadArray(d, MessageIDLength, "Parent1")
              [] i = 6 -> ReadArray(d, MessageIDLength, "Parent2")
              [] i = 7 -> ReadArray(d, MilestoneInclusionMerkleProofLength,
                                    "InclusionMerkleProof")
              [] i = 8 -> ReadSliceOfArrays(d, OneByte, MilestonePublicKeyLength,
                                            "PublicKeys")
              [] i = 9 -> DAbortIf(d, LAMBDA x :
                              MilestoneDeserializePubKeyChecks(x, deSeriMode))
              [] i = 10 -> ReadSliceOfArrays(d, OneByte, MilestoneSignatureLength,
                                             "Signatures")
              [] i = 11 -> DAbortIf(d, MilestoneDeserializeCountCheck))

\* the number of steps between NewSerializer and Serialize
SerializeSteps(type) ==
    CASE type = "SigLockedSingleOutput" -> 4
      [] type = "Indexation" -> 4
      [] type = "Milestone" -> 9

\* step i of the chain of x.Serialize
SerializeStep(x, i, s, deSeriMode) ==
    CASE x.type = "SigLockedSingleOutput" ->
           (CASE i = 1 -> SAbortIf(s, IF HasMode(deSeriMode, DeSeriModePerformValidation)
                                      THEN FirstErr(outputAmountValidator(x),
                                                    IF x.Address.type = "Ed25519Address"
                                                    THEN Nil ELSE ErrUnknownAddrType)
                                      ELSE Nil)
              [] i = 2 -> WriteByte(s, OutputSigLockedSingleOutput)
              [] i = 3 -> IF s.err # Nil THEN s
                          ELSE WriteObject(s, AddressSerialize(x.Address, deSeriMode))
              [] i = 4 -> WriteNum(s, x.Amount))
      [] x.type = "Indexation" ->
           (CASE i = 1 -> SAbortIf(s, IF HasMode(deSeriMode, DeSeriModePerformValidation)
                                      THEN IndexationSerializeChecks(x)
                                      ELSE Nil)
              [] i = 2 -> WriteTypeID(s, IndexationPayloadTypeID)
              [] i = 3 -> WriteVariableByteSlice(s, x.Index, UInt16ByteSize)
              [] i = 4 -> WriteVariableByteSlice(s, x.Data, UInt32ByteSize))
      [] x.type = "Milestone" ->
           (CASE i = 1 -> SAbortIf(s, IF HasMode(deSeriMode, DeSeriModePerformValidation)
                                      THEN MilestoneSerializeChecks(x) ELSE Nil)
              [] i = 2 -> WriteTypeID(s, MilestonePayloadTypeID)
              [] i = 3 -> WriteNum(s, x.Index)
              [] i = 4 -> WriteNum(s, x.Timestamp)
              [] i = 5 -> WriteBytes(s, x.Parent1)
              [] i = 6 -> WriteBytes(s, x.Parent2)
              [] i = 7 -> WriteBytes(s, x.InclusionMerkleProof)
              [] i = 8 -> WriteArraySlice(s, x.PublicKeys, OneByte)
              [] i = 9 -> WriteArraySlice(s, x.Signatures, OneByte))

\* the objects whose chains are run
ChainEntities ==
    {NewSigLockedSingleOutput(a, n) :
        a \in {NewEd25519Address(H1), NoObj}, n \in {U64(0), U64(1), OverSupply}}
    \cup {NewIndexation([i \in 1..l |-> 65], Zeros(k)) : l \in {0, 1}, k \in {0, 1}}
    \cup {MilestoneOf(U32(7), U64(9), H1, H2, H3, keys, [i \in 1..k |-> Sig64(i)]) :
            keys \in {<<>>, <<H1>>, <<H2, H1>>}, k \in {0, 1}}

\* the bytes of an object whatever its fields hold
BytesOf(x) ==
    IF x.type = "SigLockedSingleOutput" /\ x.Address = NoObj
    THEN <<OutputSigLockedSingleOutput>> \o PutUint(x.Amount)
    ELSE Serialize(x, DeSeriModeNoValidation).data

\* a chain that made i steps; failedAt is the step that set the error
Chain(op, x, deSeriMode, cursor) ==
    [op |-> op, x |-> x, mode |-> deSeriMode, i |-> 0, c |-> cursor, failedAt |-> 0,
     result |-> [err |-> Nil]]

InitChain ==
    /\ pc = "chain"
    /\ ser = NoSer
    /\ de = NoDe
    /\ ms = NoMs
    /\ builder = NoBuilder
    /\ call \in {Chain("Serialize", x, deSeriMode, NewSerializer) :
                    x \in ChainEntities, deSeriMode \in DeSeriModes}
               \cup UNION {{Chain("Deserialize", ZeroValue(x.type), deSeriMode,
                                 NewDeserializer(data, ZeroValue(x.type))) :
                               deSeriMode \in DeSeriModes, data \in Tampered(BytesOf(x))} :
                             x \in ChainEntities}

DoDeserializeStep ==
    /\ pc = "chain"
    /\ call.op = "Deserialize"
    /\ call.i < DeserializeSteps(call.x.type)
    /\ \E d \in {DeserializeStep(call.x.type, call.i + 1, call.c, call.mode)} :
        call' = [call EXCEPT !.i = @ + 1, !.c = d,
                             !.failedAt = IF call.c.err = Nil /\ d.err # Nil
                                          THEN call.i + 1 ELSE @]
    /\ UNCHANGED <<pc, ser, de, ms, builder>>

DoDeserializeDone ==
    /\ pc = "chain"
    /\ call.op = "Deserialize"
    /\ call.i = DeserializeSteps(call.x.type)
    /\ call' = [call EXCEPT !.result = Done(call.c, call.mode)]
    /\ pc' = "returned"
    /\ UNCHANGED <<ser, de, ms, builder>>

DoSerializeStep ==
    /\ pc = "chain"
    /\ call.op = "Serialize"
    /\ call.i < SerializeSteps(call.x.type)
    /\ \E s \in {SerializeStep(call.x, call.i + 1, call.c, call.mode)} :
        call' = [call EXCEPT !.i = @ + 1, !.c = s,
                             !.failedAt = IF call.c.err = Nil /\ s.err # Nil
                                          THEN call.i + 1 ELSE @]
    /\ UNCHANGED <<pc, ser, de, ms, builder>>

DoSerializeDone ==
    /\ pc = "chain"
    /\ call.op = "Serialize"
    /\ call.i = SerializeSteps(call.x.type)
    /\ call' = [call EXCEPT !.result = SerializerSerialize(call.c)]
    /\ pc' = "returned"
    /\ UNCHANGED <<ser, de, ms, builder>>

NextChain ==
    \/ DoDeserializeStep
    \/ DoDeserializeDone
    \/ DoSerializeStep
    \/ DoSerializeDone

SpecChain == InitChain /\ [][NextChain]_vars

----------------------------------------------------------------------------
(* The miner worker by worker.  ProofOfWork serializes the message and     *)
(* starts Mine; N workers scan the nonces, worker i from i in steps of N;  *)
(* a worker that meets the target publishes through a compare-and-swap of  *)
(* the done flag and writes the result cell; every worker reads the done   *)
(* flag on each iteration and polls the cancellation signal on every       *)
(* PollCadence-th; Mine returns when all workers have exited               *)

MaxWorkers == 3
PollCadence == 2

\* a publish that does not compare
StoreUnconditionally(flag, old, new) == [val |-> new, ok |-> TRUE]

\* the compare-and-swap of the done flag
CompareAndSwap(flag, old, new) ==
    IF flag = old THEN [val |-> new, ok |-> TRUE] ELSE [val |-> flag, ok |-> FALSE]

\* the builders ProofOfWork is called on: one with a message that
\* serializes, one with a message without parents, one with an error
MinerBuilders ==
    {MessageBuilderParents(MessageBuilderPayload(NewMessageBuilder,
                                                 NewIndexation(<<65>>, <<>>)), <<H1>>),
     NewMessageBuilder,
     MessageBuilderPayload(NewMessageBuilder, NewEd25519Address(H1))}

NoBuilt == [msg |-> NoObj, err |-> Nil]

\* the nonces of the search with which the bytes reach the target score
Hits(data, targetScore) ==
    {n \in 0..MaxNonce : PowSatisfies(data \o PutUint(U64(n)), targetScore)}

\* the state of a Mine that has just started its workers; hits is what the
\* hash of the bytes with each nonce will turn out to be
StartMine(data, targetScore, numWorkers) ==
    [op |-> "Mine", data |-> data, targetScore |-> targetScore,
     numWorkers |-> numWorkers, hits |-> Hits(data, targetScore),
     cancelled |-> FALSE, cancelledFirst |-> FALSE,
     done |-> FALSE, cell |-> 0, writers |-> <<>>,
     wpc |-> [w \in 1..numWorkers |-> "loop"],
     nonce |-> [w \in 1..numWorkers |-> w - 1],
     exit |-> [w \in 1..numWorkers |-> "none"],
     result |-> [nonce |-> U64(0), err |-> Nil],
     built |-> NoBuilt]

\* a ProofOfWork that did not reach Mine
NoMine == [StartMine(<<>>, 0, 0) EXCEPT !.op = "ProofOfWork"]

\* the nonce of a worker whose stride has left the nonces searched
Exhausted == MaxNonce + 1

\* the worker is on an iteration on which it polls the cancellation signal
PollsNow(w) ==
    \/ call.nonce[w] = Exhausted
    \/ ((call.nonce[w] - (w - 1)) \div call.numWorkers) % PollCadence = 0

AllExited == \A w \in 1..call.numWorkers : call.wpc[w] = "exited"

InitMiner ==
    /\ pc = "building"
    /\ ser = NoSer
    /\ de = NoDe
    /\ ms = NoMs
    /\ call = NoCall
    /\ \E mb \in MinerBuilders :
        builder = [NoBuilder EXCEPT !.mb = mb, !.last = "Parents"]

\* ProofOfWork up to the call of Mine
DoProofOfWorkStart ==
    /\ pc = "building"
    /\ \E targetScore \in TargetScores, numWorkers \in 1..MaxWorkers :
        \E r \in {MessageSerialize(builder.mb.msg, DeSeriModePerformValidation)} :
            IF builder.mb.err # Nil
            THEN /\ pc' = "mined"
                 /\ call' = NoMine
                 /\ builder' = [builder EXCEPT !.last = "ProofOfWork",
                                               !.targetScore = targetScore]
            ELSE IF r.err # Nil
            THEN /\ pc' = "mined"
                 /\ call' = NoMine
                 /\ builder' = [builder EXCEPT !.mb.err = r.err, !.last = "ProofOfWork",
                                               !.targetScore = targetScore]
            ELSE /\ pc' = "mine"
                 /\ call' = StartMine(PowRelevantData(r.data), targetScore, numWorkers)
                 /\ builder' = [builder EXCEPT !.last = "ProofOfWork",
                                               !.targetScore = targetScore,
                                               !.mined = PowRelevantData(r.data)]
    /\ UNCHANGED <<ser, de, ms>>

\* the caller's cancellation signal fires
DoCancel ==
    /\ pc = "mine"
    /\ ~call.cancelled
    /\ call' = [call EXCEPT !.cancelled = TRUE, !.cancelledFirst = (call.writers = <<>>)]
    /\ UNCHANGED <<pc, ser, de, ms, builder>>

\* the head of a worker's loop: the done flag, then the signal
DoWorkerLoop(w) ==
    /\ pc = "mine"
    /\ w \in 1..call.numWorkers
    /\ call.wpc[w] = "loop"
    /\ call' = IF call.done
               THEN [call EXCEPT !.wpc[w] = "exited", !.exit[w] = "stopped"]
               ELSE IF PollsNow(w) /\ call.cancelled
               THEN [call EXCEPT !.wpc[w] = "exited", !.exit[w] = "cancelled"]
               ELSE [call EXCEPT !.wpc[w] = "hash"]
    /\ UNCHANGED <<pc, ser, de, ms, builder>>

\* the worker hashes the bytes with its nonce and measures the score
DoWorkerHash(w) ==
    /\ pc = "mine"
    /\ w \in 1..call.numWorkers
    /\ call.wpc[w] = "hash"
    /\ call' = IF call.nonce[w] = Exhausted
               THEN [call EXCEPT !.wpc[w] = "loop"]
               ELSE IF call.nonce[w] \in call.hits
               THEN [call EXCEPT !.wpc[w] = "publish"]
               ELSE [call EXCEPT !.wpc[w] = "loop",
                                 !.nonce[w] = IF @ + call.numWorkers > MaxNonce
                                              THEN Exhausted
                                              ELSE @ + call.numWorkers]
    /\ UNCHANGED <<pc, ser, de, ms, builder>>

\* the worker that met the target tries to win the done flag
DoWorkerPublish(w) ==
    /\ pc = "mine"
    /\ w \in 1..call.numWorkers
    /\ call.wpc[w] = "publish"
    /\ \E r \in {CompareAndSwap(call.done, FALSE, TRUE)} :
        call' = IF r.ok
                THEN [call EXCEPT !.done = r.val, !.wpc[w] = "write"]
                ELSE [call EXCEPT !.done = r.val, !.wpc[w] = "exited",
                                  !.exit[w] = "stopped"]
    /\ UNCHANGED <<pc, ser, de, ms, builder>>

\* the winner writes its nonce to the result cell
DoWorkerWrite(w) ==
    /\ pc = "mine"
    /\ w \in 1..call.numWorkers
    /\ call.wpc[w] = "write"
    /\ call' = [call EXCEPT !.cell = call.nonce[w], !.writers = Append(@, w),
                            !.wpc[w] = "exited", !.exit[w] = "found"]
    /\ UNCHANGED <<pc, ser, de, ms, builder>>

DoWorker(w) ==
    \/ DoWorkerLoop(w)
    \/ DoWorkerHash(w)
    \/ DoWorkerPublish(w)
    \/ DoWorkerWrite(w)

\* all workers have exited: Mine returns the cell or the cancellation and
\* ProofOfWork sets the nonce or the error
DoProofOfWorkReturn ==
    /\ pc = "mine"
    /\ AllExited
    /\ \E o \in {IF call.writers # <<>> THEN [nonce |-> U64(call.cell), err |-> Nil]
                 ELSE [nonce |-> U64(0), err |-> ErrCancelled]} :
        /\ call' = [call EXCEPT !.result = o]
        /\ builder' = [builder EXCEPT !.mb = ProofOfWorkMined(builder.mb, o)]
    /\ pc' = "mined"
    /\ UNCHANGED <<ser, de, ms>>

\* Build after ProofOfWork
DoBuildMined ==
    /\ pc = "mined"
    /\ call' = [call EXCEPT !.built = MessageBuilderBuild(builder.mb)]
    /\ pc' = "built"
    /\ UNCHANGED <<ser, de, ms, builder>>

NextMiner ==
    \/ DoProofOfWorkStart
    \/ DoCancel
    \/ \E w \in 1..MaxWorkers : DoWorkerLoop(w)
    \/ \E w \in 1..MaxWorkers : DoWorkerHash(w)
    \/ \E w \in 1..MaxWorkers : DoWorkerPublish(w)
    \/ \E w \in 1..MaxWorkers : DoWorkerWrite(w)
    \/ DoProofOfWorkReturn
    \/ DoBuildMined

SpecMiner == InitMiner /\ [][NextMiner]_vars

\* the workers and the goroutine that called Mine are scheduled again and
\* again; the caller's signal and the caller's Build are not
SpecMinerFair ==
    /\ SpecMiner
    /\ \A w \in 1..MaxWorkers : WF_vars(DoWorker(w))
    /\ WF_vars(DoProofOfWorkReturn)

----------------------------------------------------------------------------
(* The claims *)

Validating == DeSeriModePerformValidation

\* C1: every buffer that Message.Deserialize accepts with validation is what
\* Message.Serialize with validation returns for the message it read: the
\* call succeeds and the bytes are the buffer's, in number and in value
C1_MessageRoundTrip ==
    (/\ pc = "reserialized"
     /\ ser.obj.type = "Message"
     /\ de.mode = Validating
     /\ de.err = Nil
     /\ ser.mode = Validating)
    => (ser.err = Nil /\ ser.data = de.buf)

\* a message with a Milestone of two public keys went through both calls
C1_Witness ==
    /\ pc = "reserialized"
    /\ ser.obj.type = "Message"
    /\ de.mode = Validating
    /\ de.err = Nil
    /\ ser.mode = Validating
    /\ ser.obj.Payload.type = "Milestone"
    /\ Len(ser.obj.Payload.PublicKeys) = 2
    /\ ser.data = de.buf

RoundTripTypes ==
    {"Indexation", "Milestone", "SigLockedSingleOutput", "SigLockedDustAllowanceOutput",
     "TreasuryOutput", "TreasuryInput", "Ed25519Address"}

\* C2: the bytes Serialize with validation returns for an entity are accepted
\* by Deserialize with validation, which reports all of them consumed and
\* yields an object equal to the entity
C2_EntityRoundTrip ==
    (/\ pc = "deserialized"
     /\ ser.obj.type \in RoundTripTypes
     /\ ser.mode = Validating
     /\ de.mode = Validating
     /\ de.buf = ser.data)
    => (de.err = Nil /\ de.n = Len(de.buf) /\ de.obj = ser.obj)

\* as many signatures as public keys, between 1 and 255
MilestoneCountsHold(m) ==
    /\ Len(m.PublicKeys) = Len(m.Signatures)
    /\ Len(m.PublicKeys) >= MinPublicKeysInAMilestone
    /\ Len(m.PublicKeys) <= MaxPublicKeysInAMilestone

\* C3: a Milestone that Serialize accepts with validation, and a Milestone
\* that Deserialize returns without error, has as many signatures as public
\* keys, and between 1 and 255 of them
C3_MilestoneCounts ==
    /\ (/\ pc \in {"serialized", "reserialized"}
        /\ ser.obj.type = "Milestone"
        /\ ser.mode = Validating
        /\ ser.err = Nil) => MilestoneCountsHold(ser.obj)
    /\ (/\ call.op = "Serialize"
        /\ call.mode = Validating
        /\ call.err = Nil) => MilestoneCountsHold(ms)
    /\ (/\ pc = "deserialized"
        /\ de.pre.type = "Milestone"
        /\ de.err = Nil) => MilestoneCountsHold(de.obj)

KeySet(m) == {m.PublicKeys[i] : i \in 1..Len(m.PublicKeys)}

DistinctKeys(m) ==
    \A i, j \in 1..Len(m.PublicKeys) : i < j => m.PublicKeys[i] # m.PublicKeys[j]

\* signature i is a valid signature of the essence under public key i
ValidSignatureAt(m, i) ==
    Ed25519Verify(m.PublicKeys[i], Essence(m).data, m.Signatures[i])

\* Sign succeeded on m and every signature it stored is valid
SignedValidly(m) ==
    /\ call.signer # NoSigner
    /\ \A i \in 1..Len(m.PublicKeys) : ValidSignatureAt(m, i)

\* C4 as stated: after Sign succeeded with a signer whose signatures are
\* valid for the public keys, VerifySignatures succeeds for the applicable set
\* that is the set of the public keys (and a threshold from 1 to its size)
C4_SignThenVerify ==
    (/\ call.op = "VerifySignatures"
     /\ SignedValidly(ms)
     /\ call.applicablePubKeys = KeySet(ms)
     /\ call.minSigThreshold >= 1
     /\ call.minSigThreshold <= Cardinality(KeySet(ms)))
    => call.err = Nil

\* C4 amended: after Sign succeeded with a signer whose signatures are valid
\* for the public keys, VerifySignatures succeeds for the applicable set that
\* is the set of the public keys and a threshold from 1 to their number,
\* provided the public keys are pairwise distinct
C4_SignThenVerifyDistinct ==
    (/\ call.op = "VerifySignatures"
     /\ SignedValidly(ms)
     /\ DistinctKeys(ms)
     /\ call.applicablePubKeys = KeySet(ms)
     /\ call.minSigThreshold >= 1
     /\ call.minSigThreshold <= Len(ms.PublicKeys))
    => call.err = Nil

\* two keys signed by the signer that holds every key, verified with threshold 2
C4_Witness ==
    /\ call.op = "VerifySignatures"
    /\ call.signer = AllKeysSigner
    /\ Len(ms.PublicKeys) = 2
    /\ DistinctKeys(ms)
    /\ call.applicablePubKeys = KeySet(ms)
    /\ call.minSigThreshold = 2
    /\ call.err = Nil

\* the count preconditions of VerifySignatures
VerifyPreconditions(m, minSigThreshold, applicablePubKeys) ==
    /\ minSigThreshold >= 1
    /\ Len(m.Signatures) >= minSigThreshold
    /\ Cardinality(applicablePubKeys) >= minSigThreshold
    /\ Len(m.Signatures) = Len(m.PublicKeys)

\* C5: unless the threshold is at least 1, there are at least threshold
\* signatures and applicable keys, and as many signatures as public keys,
\* VerifySignatures returns an error and has verified no signature
C5_VerifyPreconditions ==
    (/\ call.op = "VerifySignatures"
     /\ ~VerifyPreconditions(ms, call.minSigThreshold, call.applicablePubKeys))
    => (call.err # Nil /\ call.verified = 0)

\* what the claim asks of position i
FailsAt(m, applicablePubKeys, i) ==
    \/ \E j \in 1..(i - 1) : m.PublicKeys[j] = m.PublicKeys[i]
    \/ m.PublicKeys[i] \notin applicablePubKeys
    \/ ~ValidSignatureAt(m, i)

FailureAt(m, applicablePubKeys, i) ==
    IF \E j \in 1..(i - 1) : m.PublicKeys[j] = m.PublicKeys[i]
    THEN ErrMilestoneDuplicatedPublicKey
    ELSE IF m.PublicKeys[i] \notin applicablePubKeys
    THEN ErrMilestoneNonApplicablePublicKey
    ELSE ErrMilestoneInvalidSignature

FirstFailing(m, applicablePubKeys) ==
    CHOOSE i \in 1..Len(m.PublicKeys) :
        /\ FailsAt(m, applicablePubKeys, i)
        /\ \A j \in 1..(i - 1) : ~FailsAt(m, applicablePubKeys, j)

\* C6: under its count preconditions VerifySignatures succeeds exactly when
\* every position holds a key not seen before, in the applicable set, with a
\* valid signature; otherwise it returns the error of the first failing
\* position; and after a success, the call without one of the keys in the
\* applicable set fails with the non-applicable error at that key's position
C6_VerifyPerPosition ==
    (/\ call.op = "VerifySignatures"
     /\ VerifyPreconditions(ms, call.minSigThreshold, call.applicablePubKeys))
    => /\ call.err = Nil
            <=> \A i \in 1..Len(ms.PublicKeys) : ~FailsAt(ms, call.applicablePubKeys, i)
       /\ call.err # Nil =>
            /\ call.pos = FirstFailing(ms, call.applicablePubKeys)
            /\ call.err = FailureAt(ms, call.applicablePubKeys, call.pos)
       /\ call.err = Nil =>
            \A i \in 1..Len(ms.PublicKeys) :
                LET without == call.applicablePubKeys \ {ms.PublicKeys[i]}
                IN VerifyPreconditions(ms, call.minSigThreshold, without)
                   => VerifySignatures(ms, call.minSigThreshold, without)
                        = [err |-> ErrMilestoneNonApplicablePublicKey, pos |-> i,
                           verified |-> i - 1]

\* the second of two validly signed keys is not in the applicable set
C6_Witness ==
    /\ call.op = "VerifySignatures"
    /\ VerifyPreconditions(ms, call.minSigThreshold, call.applicablePubKeys)
    /\ Len(ms.PublicKeys) = 2
    /\ ms.PublicKeys[1] \in call.applicablePubKeys
    /\ ms.PublicKeys[2] \notin call.applicablePubKeys
    /\ call.signer = AllKeysSigner
    /\ call.err = ErrMilestoneNonApplicablePublicKey
    /\ call.pos = 2

\* some key is greater than the key after it
OutOfOrder(keys) ==
    \E i \in 1..(Len(keys) - 1) : BytesCompare(keys[i], keys[i + 1]) > 0

\* Serialize with validation rejects a Milestone whose keys are out of order
RejectsOutOfOrderKeys ==
    /\ (/\ pc \in {"serialized", "reserialized"}
        /\ ser.obj.type = "Milestone"
        /\ ser.mode = Validating
        /\ OutOfOrder(ser.obj.PublicKeys)) => ser.err # Nil
    /\ (/\ call.op = "Serialize"
        /\ call.mode = Validating
        /\ OutOfOrder(ms.PublicKeys)) => call.err # Nil

\* C7 as stated: Serialize with validation rejects a Milestone whose public
\* keys are out of order, and accepts every signed Milestone that NewMilestone
\* made from a list of public keys that is not empty
C7_NewMilestoneSerializes ==
    /\ RejectsOutOfOrderKeys
    /\ (/\ call.op = "Serialize"
        /\ call.mode = Validating
        /\ call.made = "NewMilestone"
        /\ call.signer # NoSigner) => call.err = Nil

\* C7 amended: Serialize with validation rejects a Milestone whose public
\* keys are out of order, and accepts every signed Milestone that NewMilestone
\* made from a non-empty list of pairwise distinct public keys, in any order
C7_NewMilestoneDistinctSerializes ==
    /\ RejectsOutOfOrderKeys
    /\ (/\ call.op = "Serialize"
        /\ call.mode = Validating
        /\ call.made = "NewMilestone"
        /\ call.signer # NoSigner
        /\ DistinctKeys(ms)) => call.err = Nil

\* a signed Milestone of two keys from NewMilestone was serialized
C7_Witness ==
    /\ call.op = "Serialize"
    /\ call.mode = Validating
    /\ call.made = "NewMilestone"
    /\ call.signer # NoSigner
    /\ Len(ms.PublicKeys) = 2
    /\ DistinctKeys(ms)
    /\ call.err = Nil

\* Serialize with validation was called on an Indexation
IndexationSerialized ==
    /\ pc \in {"serialized", "reserialized"}
    /\ ser.obj.type = "Indexation"
    /\ ser.mode = Validating

\* Deserialize with validation was called on the bytes of an Indexation whose
\* index has as many bytes as ser.obj.Index and whose data is within its cap
IndexationDeserialized ==
    /\ pc = "deserialized"
    /\ ser.obj.type = "Indexation"
    /\ de.mode = Validating
    /\ de.buf = ser.data
    /\ Len(ser.obj.Data) <= MessageBinSerializedMaxSize

\* what Serialize does with an index by its length
IndexationSerializeByLength ==
    IndexationSerialized =>
        ser.err = IF Len(ser.obj.Index) < IndexationIndexMinLength
                  THEN ErrIndexationIndexUnderMinSize
                  ELSE IF Len(ser.obj.Index) > IndexationIndexMaxLength
                  THEN ErrIndexationIndexExceedsMaxSize
                  ELSE Nil

\* C8 as stated: with validation Serialize and Deserialize accept an index of
\* 1..64 bytes, reject an empty index with the error of the minimum and an
\* index of 65 bytes with the error of the maximum
C8_IndexLength ==
    /\ IndexationSerializeByLength
    /\ IndexationDeserialized =>
        IF Len(ser.obj.Index) < IndexationIndexMinLength
        THEN de.err \in {ErrIndexationIndexUnderMinSize,
                         ErrArrayValidationMinElementsNotReached}
        ELSE IF Len(ser.obj.Index) > IndexationIndexMaxLength
        THEN de.err \in {ErrIndexationIndexExceedsMaxSize,
                         ErrArrayValidationMaxElementsExceeded}
        ELSE de.err = Nil

\* C8 amended: with validation Serialize and Deserialize accept an index of
\* 1..64 bytes and no other; Serialize rejects an empty index with
\* ErrIndexationIndexUnderMinSize and a longer one with
\* ErrIndexationIndexExceedsMaxSize; Deserialize rejects an empty index with
\* ErrIndexationIndexUnderMinSize, or with ErrDeserializationNotEnoughData when
\* the buffer has fewer than IndexationBinSerializedMinSize bytes, and a longer
\* index with ErrDeserializationLengthInvalid
C8_IndexLengthByDirection ==
    /\ IndexationSerializeByLength
    /\ IndexationDeserialized =>
        de.err = IF Len(ser.obj.Index) < IndexationIndexMinLength
                 THEN IF Len(de.buf) < IndexationBinSerializedMinSize
                      THEN ErrDeserializationNotEnoughData
                      ELSE ErrIndexationIndexUnderMinSize
                 ELSE IF Len(ser.obj.Index) > IndexationIndexMaxLength
                 THEN ErrDeserializationLengthInvalid
                 ELSE Nil

\* the bytes of an Indexation with an index of 65 bytes were deserialized
C8_Witness ==
    /\ IndexationDeserialized
    /\ Len(ser.obj.Index) = IndexationIndexMaxLength + 1
    /\ de.err = ErrDeserializationLengthInvalid

\* a message that breaks no rule but, possibly, the size cap
MessageWithinRules(m) ==
    /\ MessageParentArrayRules(m.Parents) = Nil
    /\ m.Payload.type # "nil" => PayloadSerialize(m.Payload, Validating).err = Nil

\* Serialize with validation was called on a Message
MessageSerialized ==
    /\ pc \in {"serialized", "reserialized"}
    /\ ser.obj.type = "Message"
    /\ ser.mode = Validating

\* the bytes of ser.obj, written without validation, are more than 32,768
MessageOversized ==
    \E r \in {MessageSerialize(ser.obj, DeSeriModeNoValidation)} :
        r.err = Nil /\ Len(r.data) > MessageBinSerializedMaxSize

\* no Message of more than 32,768 bytes is accepted in either direction, and
\* Deserialize with validation fails with ErrDeserializationLengthInvalid on
\* every buffer of more than 32,768 bytes
MessageSizeCapHolds ==
    /\ MessageSerialized =>
        /\ ser.err = Nil => Len(ser.data) <= MessageBinSerializedMaxSize
        /\ MessageOversized => ser.err # Nil
    /\ (/\ pc = "deserialized"
        /\ de.pre.type = "Message"
        /\ de.mode = Validating
        /\ Len(de.buf) > MessageBinSerializedMaxSize)
       => de.err = ErrDeserializationLengthInvalid

\* C9 as stated: every Message whose bytes are more than 32,768 fails to
\* serialize with validation with ErrMessageExceedsMaxSize and its buffer
\* fails to deserialize with ErrDeserializationLengthInvalid
C9_MessageSizeCap ==
    /\ MessageSizeCapHolds
    /\ (MessageSerialized /\ MessageOversized)
       => ser.err = ErrMessageExceedsMaxSize

\* C9 amended: every Message whose bytes are more than 32,768 fails to
\* serialize with validation, with ErrMessageExceedsMaxSize when its parents
\* and its payload break no rule and with the error of that rule otherwise;
\* its buffer fails to deserialize with ErrDeserializationLengthInvalid
C9_MessageSizeCapWithinRules ==
    /\ MessageSizeCapHolds
    /\ (MessageSerialized /\ MessageOversized)
       => ser.err = IF MessageWithinRules(ser.obj)
                    THEN ErrMessageExceedsMaxSize
                    ELSE FirstErr(MessageParentArrayRules(ser.obj.Parents),
                                  PayloadSerialize(ser.obj.Payload, Validating).err)

\* a message of 32,769 bytes that breaks no other rule was serialized with
\* validation
C9_Witness ==
    /\ MessageSerialized
    /\ MessageOversized
    /\ MessageWithinRules(ser.obj)
    /\ ser.err = ErrMessageExceedsMaxSize

StrictlyAscending(parents) ==
    \A i \in 1..(Len(parents) - 1) : BytesCompare(parents[i], parents[i + 1]) < 0

ParentsHold(parents) ==
    /\ Len(parents) >= MinParentsInAMessage
    /\ Len(parents) <= MaxParentsInAMessage
    /\ StrictlyAscending(parents)

\* the error of the first parent that is not greater than the one before it
ParentOrderError(parents) ==
    LET i == CHOOSE k \in 1..(Len(parents) - 1) :
                 /\ BytesCompare(parents[k], parents[k + 1]) >= 0
                 /\ \A j \in 1..(k - 1) : BytesCompare(parents[j], parents[j + 1]) < 0
    IN IF BytesCompare(parents[i], parents[i + 1]) > 0
       THEN ErrArrayValidationOrderViolatesLexicalOrder
       ELSE ErrArrayValidationViolatesUniqueness

\* C10: with validation Message.Serialize and Message.Deserialize accept only
\* 1..8 parents in strictly ascending order; 1..8 parents that are not are
\* rejected with the order error where a parent is less than the one before
\* it and with the uniqueness error where it is equal, on Serialize and on
\* Deserialize of the message's bytes
C10_MessageParents ==
    /\ (/\ pc \in {"serialized", "reserialized"}
        /\ ser.obj.type = "Message"
        /\ ser.mode = Validating)
       => /\ ser.err = Nil => ParentsHold(ser.obj.Parents)
          /\ (/\ Len(ser.obj.Parents) \in MinParentsInAMessage..MaxParentsInAMessage
              /\ ~StrictlyAscending(ser.obj.Parents))
             => ser.err = ParentOrderError(ser.obj.Parents)
    /\ (/\ pc = "deserialized"
        /\ de.pre.type = "Message"
        /\ de.mode = Validating)
       => /\ de.err = Nil => ParentsHold(de.obj.Parents)
          /\ (/\ de.buf = ser.data
              /\ Len(de.buf) <= MessageBinSerializedMaxSize
              /\ Len(ser.obj.Parents) \in MinParentsInAMessage..MaxParentsInAMessage
              /\ ~StrictlyAscending(ser.obj.Parents))
             => de.err = ParentOrderError(ser.obj.Parents)

\* the message built with the parents H2, H1 was serialized with validation
C10_Witness ==
    /\ pc = "serialized"
    /\ ser.obj = BuildMessage(<<H2, H1>>, NoObj)
    /\ ser.mode = Validating
    /\ ser.err = ErrArrayValidationOrderViolatesLexicalOrder

\* the blocks at the 0 based positions i and j are signature blocks of the
\* same public key
SamePublicKey(unlockBlocks, i, j) ==
    /\ unlockBlocks[i + 1].type = "SignatureUnlockBlock"
    /\ unlockBlocks[j + 1].type = "SignatureUnlockBlock"
    /\ unlockBlocks[i + 1].Signature.PublicKey = unlockBlocks[j + 1].Signature.PublicKey

SigBlocksUnique(unlockBlocks) ==
    \A i, j \in 0..(Len(unlockBlocks) - 1) : i < j => ~SamePublicKey(unlockBlocks, i, j)

\* C11: ValidateUnlockBlocks with UnlockBlocksSigUniqueAndRefValidator returns
\* an error for every list in which two signature blocks carry the same
\* public key, and accepts every list of signature blocks whose public keys
\* are pairwise distinct
C11_SigBlocksUnique ==
    call.op = "ValidateUnlockBlocks" =>
        /\ ~SigBlocksUnique(call.unlockBlocks) => call.err # Nil
        /\ (/\ SigBlocksUnique(call.unlockBlocks)
            /\ \A i \in 1..Len(call.unlockBlocks) :
                  call.unlockBlocks[i].type = "SignatureUnlockBlock")
           => call.err = Nil

\* two signature blocks of one public key and different signatures, with a
\* signature block of another key between them, were rejected
C11_Witness ==
    /\ call.op = "ValidateUnlockBlocks"
    /\ Len(call.unlockBlocks) = 3
    /\ SamePublicKey(call.unlockBlocks, 0, 2)
    /\ call.unlockBlocks[1].Signature.Signature # call.unlockBlocks[3].Signature.Signature
    /\ call.unlockBlocks[2].type = "SignatureUnlockBlock"
    /\ ~SamePublicKey(call.unlockBlocks, 0, 1)
    /\ call.err = ErrUnlockBlocksValidation

\* the block at the 0 based position i is no reference block, or references
\* an earlier position that holds a signature block
ReferenceHolds(unlockBlocks, i) ==
    unlockBlocks[i + 1].type = "ReferenceUnlockBlock" =>
        /\ unlockBlocks[i + 1].Reference[1] < i
        /\ unlockBlocks[unlockBlocks[i + 1].Reference[1] + 1].type = "SignatureUnlockBlock"

\* C12: ValidateUnlockBlocks with UnlockBlocksSigUniqueAndRefValidator rejects
\* every list with a reference block at position i whose reference j is not
\* less than i or is the position of another reference block, and a list
\* whose signature blocks are unique is accepted exactly when every reference
\* block references an earlier signature block
C12_ReferenceBlocks ==
    call.op = "ValidateUnlockBlocks" =>
        /\ (\E i \in 0..(Len(call.unlockBlocks) - 1) : ~ReferenceHolds(call.unlockBlocks, i))
           => call.err # Nil
        /\ SigBlocksUnique(call.unlockBlocks) =>
              (call.err = Nil <=>
                  \A i \in 0..(Len(call.unlockBlocks) - 1) :
                      ReferenceHolds(call.unlockBlocks, i))

\* a signature block followed by two references to it was accepted
C12_Witness ==
    /\ call.op = "ValidateUnlockBlocks"
    /\ Len(call.unlockBlocks) = 3
    /\ call.unlockBlocks[1].type = "SignatureUnlockBlock"
    /\ call.unlockBlocks[2] = NewReferenceUnlockBlock(<<0>>)
    /\ call.unlockBlocks[3] = NewReferenceUnlockBlock(<<0>>)
    /\ call.err = Nil

\* C13: on its own a ReferenceUnlockBlock of any reference is accepted by
\* Serialize with validation, which returns the tag byte 1 and the reference
\* as two little-endian bytes, and Deserialize with validation of these bytes
\* succeeds and yields the block
C13_ReferenceAnyValue ==
    /\ (/\ pc \in {"serialized", "reserialized"}
        /\ ser.obj.type = "ReferenceUnlockBlock"
        /\ ser.mode = Validating)
       => /\ ser.err = Nil
          /\ ser.data = <<UnlockBlockReference, ser.obj.Reference[1] % 256,
                          ser.obj.Reference[1] \div 256>>
    /\ (/\ pc = "deserialized"
        /\ ser.obj.type = "ReferenceUnlockBlock"
        /\ de.mode = Validating
        /\ de.buf = ser.data)
       => /\ de.err = Nil
          /\ de.n = ReferenceUnlockBlockSize
          /\ de.obj = ser.obj

\* the block with the greatest reference went through Serialize and Deserialize
C13_Witness ==
    /\ pc = "deserialized"
    /\ ser.obj = NewReferenceUnlockBlock(<<65535>>)
    /\ ser.mode = Validating
    /\ de.mode = Validating
    /\ de.buf = ser.data
    /\ de.obj = ser.obj
    /\ de.err = Nil

\* C14: AddressSelector(t) returns an empty Ed25519Address for t = 0 and
\* ErrUnknownAddrType for every other 32-bit t, and UnlockBlockSelector(t)
\* returns an empty block for t = 0 and t = 1 and ErrUnknownUnlockBlockType
\* for every other t
C14_Selectors ==
    /\ call.op = "AddressSelector" =>
        IF call.tag = AddressEd25519
        THEN call.err = Nil /\ call.obj = ZeroValue("Ed25519Address")
        ELSE call.err = ErrUnknownAddrType /\ call.obj = NoObj
    /\ call.op = "UnlockBlockSelector" =>
        IF call.tag = UnlockBlockSignature
        THEN call.err = Nil /\ call.obj = ZeroValue("SignatureUnlockBlock")
        ELSE IF call.tag = UnlockBlockReference
        THEN call.err = Nil /\ call.obj = ZeroValue("ReferenceUnlockBlock")
        ELSE call.err = ErrUnknownUnlockBlockType /\ call.obj = NoObj

\* C15: a Deserialize with validation that succeeds returns the length of
\* the buffer as its byte count, and a buffer made of the bytes of an entity
\* and one more byte is rejected with ErrDeserializationNotAllConsumed
C15_WholeBufferConsumed ==
    (pc = "deserialized" /\ de.mode = Validating)
    => /\ de.err = Nil => de.n = Len(de.buf)
       /\ (ser.mode = Validating /\ de.buf = ser.data \o <<0>>)
          => de.err = ErrDeserializationNotAllConsumed

\* C16: in both modes Deserialize of a buffer shorter than the encoded
\* entity fails with ErrDeserializationNotEnoughData, and the byte count of
\* a Deserialize that succeeds is at most the length of the buffer
C16_ShortBufferRejected ==
    pc = "deserialized"
    => /\ Len(de.buf) < Len(ser.data) => de.err = ErrDeserializationNotEnoughData
       /\ de.err = Nil => de.n <= Len(de.buf)

\* C17: with validation neither Serialize nor Deserialize accepts a
\* TreasuryOutput of an amount above TokenSupply
C17_TreasuryOutputSupply ==
    /\ (/\ pc \in {"serialized", "reserialized"}
        /\ ser.obj.type = "TreasuryOutput"
        /\ ser.mode = Validating
        /\ ser.err = Nil)
       => ~NumLess(TokenSupply, ser.obj.Amount)
    /\ (/\ pc = "deserialized"
        /\ de.obj.type = "TreasuryOutput"
        /\ de.mode = Validating
        /\ de.err = Nil)
       => ~NumLess(TokenSupply, de.obj.Amount)

\* the bytes Serialize with validation makes of the message that was built
BuiltData == MessageSerialize(call.msg, Validating).data

\* C18: when Build follows a ProofOfWork that succeeded, the message built
\* serializes with the mined nonce as its last 8 bytes, these bytes reach
\* the target score, and the bytes the miner was handed are these bytes
\* without the last 8
C18_ProofOfWorkThenBuild ==
    (/\ pc = "built"
     /\ builder.last = "ProofOfWork"
     /\ call.err = Nil)
    => /\ MessageSerialize(call.msg, Validating).err = Nil
       /\ SubSeq(BuiltData, Len(BuiltData) - UInt64ByteSize + 1, Len(BuiltData))
             = PutUint(call.msg.Nonce)
       /\ PowSatisfies(BuiltData, builder.targetScore)
       /\ builder.mined = SubSeq(BuiltData, 1, Len(BuiltData) - UInt64ByteSize)

\* a message of two parents and an Indexation was mined to the higher target
\* with a nonce other than zero and built
C18_Witness ==
    /\ pc = "built"
    /\ builder.last = "ProofOfWork"
    /\ call.err = Nil
    /\ builder.targetScore = 4
    /\ call.msg.Nonce # U64(0)
    /\ call.msg.Parents = <<H1, H2>>
    /\ call.msg.Payload = NewIndexation(<<65>>, <<>>)
    /\ PowSatisfies(BuiltData, 4)

\* the message IDs Parents makes of the byte slices it is handed
MessageIDsOf(parents) ==
    [i \in 1..Len(parents) |-> Copy(Zeros(MessageIDLength), parents[i])]

\* C20: after Parents(p) on a builder without an error the parents of the
\* message are the IDs of p, in the order of p
C20_ParentsSets ==
    (/\ pc = "building"
     /\ builder.last = "Parents"
     /\ builder.mb.err = Nil)
    => builder.mb.msg.Parents = MessageIDsOf(builder.parents)

\* C19: ParseBech32 of the string a.Bech32(p) of an Ed25519Address a and
\* the prefix p, mainnet or testnet, returns p and a and no error
C19_Bech32RoundTrip ==
    (/\ pc = "returned"
     /\ call.op = "ParseBech32"
     /\ call.s = call.encoded)
    => /\ call.err = Nil
       /\ call.prefix = call.hrp
       /\ call.parsed = call.addr

\* the string of an address of bytes of every kind under the testnet prefix
\* starts with atoi1 and was parsed
C19_Witness ==
    /\ pc = "returned"
    /\ call.op = "ParseBech32"
    /\ call.s = call.encoded
    /\ call.addr = MixedAddress
    /\ call.hrp = PrefixTestnet
    /\ SubSeq(call.s, 1, 5) = <<"a", "t", "o", "i", "1">>
    /\ Len(call.s) = 64
    /\ call.parsed = MixedAddress
    /\ call.prefix = PrefixTestnet

\* C21: in a chained Deserialize or Serialize a step that finds the error
\* set leaves the cursor, the receiver, the bytes written and the error as
\* they are, the call returns the error of the first step that failed, and
\* what the chain returns step by step is what the call returns
C21_FailFast ==
    [][/\ (pc = "chain" /\ pc' = "chain" /\ call.c.err # Nil) => call'.c = call.c
       /\ (pc = "chain" /\ pc' = "returned" /\ call.c.err # Nil)
          => call'.result.err = call.c.err
       /\ (pc = "chain" /\ pc' = "returned" /\ call.op = "Deserialize")
          => call'.result = Deserialize(call.x, call.c.data, call.mode)
       /\ (pc = "chain" /\ pc' = "returned" /\ call.op = "Serialize")
          => call'.result = Serialize(call.x, call.mode)]_vars

\* a Milestone.Deserialize whose public key check failed, with the
\* signatures and the count check still to come, returned that error
C21_Witness ==
    /\ pc = "returned"
    /\ call.op = "Deserialize"
    /\ call.x.type = "Milestone"
    /\ call.failedAt = 9
    /\ call.i = DeserializeSteps("Milestone")
    /\ call.result.err = ErrMilestonePublicKeyOrderViolatesLexicalOrder
    /\ call.result.obj.Signatures = <<>>

\* C22: a Sign that returns no error leaves as many signatures as the
\* Milestone has public keys, between 1 and 255, and a Sign that returns an
\* error leaves the signatures as they were
C22_SignStoresAllOrNothing ==
    [][(pc = "milestone" /\ call'.op = "Sign")
       => IF call'.err = Nil
          THEN /\ Len(ms'.Signatures) = Len(ms'.PublicKeys)
               /\ Len(ms'.Signatures) >= MinSignaturesInAMilestone
               /\ Len(ms'.Signatures) <= MaxSignaturesInAMilestone
               /\ ms' = [ms EXCEPT !.Signatures = ms'.Signatures]
          ELSE ms' = ms]_vars

\* a Milestone of two public keys and one signature was signed by a function
\* that returned one signature: count mismatch, the old signature is kept
C22_Witness ==
    /\ pc = "milestone"
    /\ call.op = "Sign"
    /\ call.err = ErrMilestoneProducedSignaturesCountMismatch
    /\ Len(ms.PublicKeys) = 2
    /\ ms.Signatures = <<Sig64(1)>>

\* the Milestones at hand: the one made or signed and the ones serialized
\* or deserialized
MilestonesAtHand == {m \in {ms, ser.obj, de.obj} : m.type = "Milestone"}

\* the bytes of Serialize without validation less the payload type and the
\* signatures with their count
SerializedEssence(m) ==
    LET data == MilestoneSerialize(m, DeSeriModeNoValidation).data
    IN SubSeq(data, TypeDenotationByteSize + 1,
              Len(data) - (OneByte + MilestoneSignatureLength * Len(m.Signatures)))

\* C23: the essence of a Milestone of at least one public key is the bytes
\* of its Serialize without validation less the leading payload type and
\* the trailing signatures, so it is the essence of the same Milestone
\* without signatures
C23_EssenceOfSerialized ==
    \A m \in MilestonesAtHand :
        Len(m.PublicKeys) >= MinPublicKeysInAMilestone
        => /\ Essence(m).err = Nil
           /\ Essence(m).data = SerializedEssence(m)
           /\ Essence(m) = Essence([m EXCEPT !.Signatures = <<>>])

\* a signed Milestone of two public keys and two signatures
C23_Witness ==
    /\ pc = "milestone"
    /\ call.op = "Sign"
    /\ call.err = Nil
    /\ Len(ms.PublicKeys) = 2
    /\ Len(ms.Signatures) = 2
    /\ Essence(ms).data = SerializedEssence(ms)
    /\ Len(Essence(ms).data) = 173

\* C24: with validation neither Serialize nor Deserialize rejects an
\* Indexation for the length of its data: an Indexation whose index is
\* within its bounds serializes, and its bytes deserialize
C24_IndexationDataUnbounded ==
    /\ (/\ pc \in {"serialized", "reserialized"}
        /\ ser.obj.type = "Indexation"
        /\ ser.mode = Validating
        /\ IndexationSerializeChecks(ser.obj) = Nil)
       => ser.err = Nil
    /\ (/\ pc = "deserialized"
        /\ ser.obj.type = "Indexation"
        /\ ser.mode = Validating
        /\ de.mode = Validating
        /\ de.buf = ser.data)
       => de.err = Nil

StructuralTypes ==
    {"SigLockedSingleOutput", "SigLockedDustAllowanceOutput", "TreasuryOutput",
     "Indexation", "Milestone"}

\* the leading type tag of the bytes of an object
TypeTag(type) ==
    CASE type = "SigLockedSingleOutput" -> <<OutputSigLockedSingleOutput>>
      [] type = "SigLockedDustAllowanceOutput" -> <<OutputSigLockedDustAllowanceOutput>>
      [] type = "TreasuryOutput" -> <<OutputTreasuryOutput>>
      [] type = "Indexation" -> PutLen(IndexationPayloadTypeID, TypeDenotationByteSize)
      [] type = "Milestone" -> PutLen(MilestonePayloadTypeID, TypeDenotationByteSize)

\* the object a Deserialize without validation accepted was serialized
\* without validation
Reserialized ==
    /\ pc = "reserialized"
    /\ de.mode = DeSeriModeNoValidation
    /\ ser.mode = DeSeriModeNoValidation
    /\ ser.obj.type \in StructuralTypes

\* C25 as stated: serializing without validation what Deserialize without
\* validation accepted gives the bytes consumed, the type tag included
C25_StructuralRoundTrip ==
    Reserialized => (ser.err = Nil /\ ser.data = SubSeq(de.buf, 1, de.n))

\* C25: serializing without validation what Deserialize without validation
\* accepted gives the type tag of the object followed by the bytes consumed
\* after the tag; the tag of the buffer is reproduced when it is that tag
C25_StructuralRoundTripAfterTag ==
    Reserialized
    => /\ ser.err = Nil
       /\ ser.data = TypeTag(ser.obj.type)
                        \o SubSeq(de.buf, Len(TypeTag(ser.obj.type)) + 1, de.n)
       /\ SubSeq(de.buf, 1, Len(TypeTag(ser.obj.type))) = TypeTag(ser.obj.type)
          => ser.data = SubSeq(de.buf, 1, de.n)

\* a TreasuryOutput read without validation from a buffer that starts with
\* another tag was serialized
C25_Witness ==
    /\ Reserialized
    /\ ser.obj.type = "TreasuryOutput"
    /\ de.buf[1] # OutputTreasuryOutput
    /\ de.n = TreasuryOutputBytesSize
    /\ ser.data[1] = OutputTreasuryOutput
    /\ SubSeq(ser.data, 2, Len(ser.data)) = SubSeq(de.buf, 2, de.n)

\* Mine has returned to ProofOfWork
MineReturned == call.op = "Mine" /\ pc \in {"mined", "built"}

\* the nonce meets the target score of the Mine under way
MeetsTarget(nonce) ==
    PowSatisfies(call.data \o PutUint(U64(nonce)), call.targetScore)

\* C26: in every interleaving of the workers at most one worker writes the
\* result cell and, when a worker has won the done flag, exactly one has by
\* the time Mine returns; a cell that was written is not written again;
\* a worker that reads the done flag set stops, and once the flag is set
\* all workers exit and Mine returns; the nonce Mine returns is the one in
\* the cell, it is the nonce of the worker that wrote it and it meets the
\* target
C26_ExactlyOneWinner ==
    /\ [](call.op = "Mine"
          => /\ Len(call.writers) <= 1
             /\ call.writers # <<>>
                => /\ call.done
                   /\ call.cell = call.nonce[call.writers[1]]
                   /\ call.exit[call.writers[1]] = "found"
                   /\ MeetsTarget(call.cell)
             /\ MineReturned
                => /\ AllExited
                   /\ call.done <=> Len(call.writers) = 1
                   /\ call.result \in Mine(call.data, call.targetScore)
                   /\ call.result.err = Nil <=> call.done
                   /\ call.result.err = Nil
                      => /\ call.result.nonce = U64(call.cell)
                         /\ MeetsTarget(call.cell))
    /\ [][(call.op = "Mine" /\ call'.op = "Mine")
          => /\ call.done => call'.done
             /\ call.writers # <<>>
                => (call'.cell = call.cell /\ call'.writers = call.writers)
             /\ \A w \in 1..call.numWorkers :
                   (call.done /\ call.wpc[w] = "loop" /\ call'.wpc[w] # "loop")
                   => (call'.wpc[w] = "exited" /\ call'.exit[w] = "stopped")]_vars
    /\ (pc = "mine" /\ call.done) ~> (pc = "mined" /\ AllExited /\ call.result.err = Nil)

\* two of three workers met the target in one Mine: one won the flag and wrote the
\* cell, the other lost the compare-and-swap and stopped, and Mine returned
\* the nonce of the winner
C26_Witness ==
    /\ MineReturned
    /\ call.numWorkers = 3
    /\ \E w, v \in 1..3 :
        /\ call.exit[w] = "found"
        /\ call.exit[v] = "stopped"
        /\ call.nonce[v] # Exhausted
        /\ MeetsTarget(call.nonce[v])
        /\ call.writers = <<w>>
        /\ call.result = [nonce |-> U64(call.nonce[w]), err |-> Nil]

\* Mine returns to ProofOfWork in this step, the caller's signal having
\* fired before any worker had written the result cell
ReturnsAfterCancel ==
    /\ pc = "mine"
    /\ pc' = "mined"
    /\ call.cancelledFirst

\* Build after a Mine that returned the cancellation gives the error and no
\* message
BuildAfterCancelled ==
    (pc = "built" /\ call.op = "Mine" /\ call.result.err = ErrCancelled)
    => call.built = [msg |-> NoObj, err |-> ErrCancelled]

BuilderSteps ==
    {"NetworkID", "NetworkIDFromString", "Payload", "Tips", "Parents", "ProofOfWork"}

\* C28: a step on a builder that has recorded an error leaves the message
\* and the error as they are; Build returns no message and the recorded
\* error when there is one and the message and no error when there is none,
\* and so never both and never neither
C28_FirstErrorSticks ==
    [][/\ (pc = "building" /\ pc' = "building" /\ builder.mb.err # Nil)
          => (builder'.last \in BuilderSteps /\ builder'.mb = builder.mb)
       /\ (pc = "building" /\ pc' = "built")
          => /\ call'.op = "Build"
             /\ IF builder.mb.err # Nil
                THEN call'.msg = NoObj /\ call'.err = builder.mb.err
                ELSE call'.msg = builder.mb.msg /\ call'.err = Nil
             /\ (call'.msg = NoObj) <=> (call'.err # Nil)]_vars

\* Payload recorded the error of an unknown payload type on a builder with a
\* parent, NetworkIDFromString was called after it, and Build returned that
\* error and no message
C28_Witness ==
    /\ pc = "built"
    /\ builder.last = "NetworkIDFromString"
    /\ builder.mb.err = ErrUnknownPayloadType
    /\ builder.mb.msg.NetworkID = U64(0)
    /\ builder.mb.msg.Parents = <<H1>>
    /\ call.msg = NoObj
    /\ call.err = ErrUnknownPayloadType

\* the types Payload takes; nil is no payload
PayloadTypes == {"Indexation", "Milestone", "Transaction", "nil"}

\* C30: Payload on a builder without an error sets the payload when it is
\* an Indexation, a Milestone, a Transaction or nil, and records
\* ErrUnknownPayloadType and leaves the message as it is for anything else;
\* the payload of the message under construction and of a message Build
\* returns is of one of these types
C30_PayloadTypes ==
    [][/\ (pc = "building" /\ builder'.last = "Payload" /\ builder.mb.err = Nil)
          => IF builder'.seri.type \in PayloadTypes
             THEN builder'.mb = [builder.mb EXCEPT !.msg.Payload = builder'.seri]
             ELSE builder'.mb = [builder.mb EXCEPT !.err = ErrUnknownPayloadType]
       /\ pc' = "building" => builder'.mb.msg.Payload.type \in PayloadTypes
       /\ (pc' = "built" /\ call'.err = Nil)
          => call'.msg.Payload.type \in PayloadTypes]_vars

\* Payload was handed an address on a builder that carried an Indexation:
\* the error is recorded, the Indexation is still the payload and Build
\* returned the error
C30_Witness ==
    /\ pc = "built"
    /\ builder.last = "Payload"
    /\ builder.seri = NewEd25519Address(H1)
    /\ builder.mb.err = ErrUnknownPayloadType
    /\ builder.mb.msg.Payload = NewIndexation(<<65>>, <<>>)
    /\ call.err = ErrUnknownPayloadType
    /\ call.msg = NoObj

ReceiverTypes ==
    {"SigLockedSingleOutput", "SigLockedDustAllowanceOutput", "Indexation", "Milestone"}

\* a Deserialize into one of the receivers returned an error
DeserializeFailed ==
    /\ de.mode \in DeSeriModes
    /\ de.pre.type \in ReceiverTypes
    /\ de.err # Nil

\* the fields of a receiver in the order Deserialize reads them
FieldOrder(type) ==
    CASE type \in {"SigLockedSingleOutput", "SigLockedDustAllowanceOutput"} ->
           <<"Address", "Amount">>
      [] type = "Indexation" -> <<"Index", "Data">>
      [] type = "Milestone" ->
           <<"Index", "Timestamp", "Parent1", "Parent2", "InclusionMerkleProof",
             "PublicKeys", "Signatures">>

\* the first k fields of the receiver hold what the buffer holds for them,
\* read is the receiver of a Deserialize of the buffer without validation,
\* and the fields after them hold what they held before the call
ReadUpTo(k, read) ==
    \A j \in 1..Len(FieldOrder(de.pre.type)) :
        de.obj[FieldOrder(de.pre.type)[j]]
            = IF j <= k THEN read[FieldOrder(de.pre.type)[j]]
              ELSE de.pre[FieldOrder(de.pre.type)[j]]

\* C29 as stated: after a Deserialize that returned an error the receiver
\* is what it was before the call
C29_ReceiverUnchanged ==
    DeserializeFailed => de.obj = de.pre

\* C29: after a Deserialize that returned an error the receiver holds the
\* fields read before the failing step, as the buffer has them, and its
\* other fields as they were: none was read when the type tag is wrong, the
\* address and the amount were when the amount is refused, the fields up to
\* the public keys when the keys are refused, and all of them when the
\* counts differ or bytes are left over
C29_ReceiverHoldsFieldsRead ==
    DeserializeFailed
    => \E r \in {Deserialize(de.pre, de.buf, DeSeriModeNoValidation)} :
        /\ DOMAIN de.obj = DOMAIN de.pre
        /\ de.obj.type = de.pre.type
        /\ \E k \in 0..Len(FieldOrder(de.pre.type)) : ReadUpTo(k, r.obj)
        /\ de.err = ErrDeserializationTypeMismatch => de.obj = de.pre
        /\ de.err \in {ErrDepositAmountMustBeGreaterThanZero,
                       ErrOutputDepositsMoreThanTotalSupply,
                       ErrOutputDustAllowanceLessThanMinDeposit}
           => (ReadUpTo(2, r.obj) /\ de.obj.Address # de.pre.Address)
        /\ de.err \in {ErrMilestoneTooFewPublicKeys,
                       ErrMilestonePublicKeyOrderViolatesLexicalOrder}
           => ReadUpTo(6, r.obj)
        /\ de.err \in {ErrMilestoneSignaturesPublicKeyCountMismatch,
                       ErrDeserializationNotAllConsumed}
           => ReadUpTo(Len(FieldOrder(de.pre.type)), r.obj)

\* a SigLockedSingleOutput of amount zero was deserialized with validation:
\* the amount is refused and the receiver holds the address of the buffer
C29_Witness ==
    /\ DeserializeFailed
    /\ de.pre = ZeroValue("SigLockedSingleOutput")
    /\ de.mode = DeSeriModePerformValidation
    /\ de.err = ErrDepositAmountMustBeGreaterThanZero
    /\ de.obj.Address # NoObj
    /\ de.obj.Address.type = "Ed25519Address"
    /\ de.obj # de.pre

=============================================================================
